---------------------------- MODULE Spec2Model ----------------------------
(***************************************************************************)
(* Algofi AMM constant-product pool (src/algofi/amm/pool.py) and the part  *)
(* of the pool manager it reads (src/algofi/amm/manager.py).               *)
(*                                                                         *)
(* The pool is an Algorand application.  One application call is one step  *)
(* of the model: the approval program either approves, and the writes of   *)
(* the handler are committed, or fails (an Assert, a uint64 underflow, a   *)
(* division by zero, no matching Cond branch), and the AVM discards every  *)
(* write.  Each handler is an operator from the pool state and the         *)
(* transactions it reads to a result [ok, st, ...]; the action commits     *)
(* res.st only when res.ok.                                                *)
(*                                                                         *)
(* Numbers: the program constants keep their values.  TLC integers are     *)
(* 32-bit, so WideRatio is computed exactly without forming the product    *)
(* and the amounts are kept below 2^30; a call whose intermediate values   *)
(* leave that range is outside the modelled inputs (the action is not      *)
(* enabled for it).                                                        *)
(***************************************************************************)
EXTENDS Integers, Sequences, FiniteSets, TLC

(***************************************************************************)
(* Program constants                                                       *)
(***************************************************************************)
FIXED_6_SCALE_FACTOR == 1000000
FIXED_9_SCALE_FACTOR == 1000000000
MAX_ASSET_RATIO == 1000000000
MIN_POOL_BALANCE == 1000
DEFAULT_SWAP_FEE_PCT_SCALED == 2500
DEFAULT_PARAM_UPDATE_DELAY == 5
DEFAULT_RESERVE_FACTOR == 175000
INIT_FLASH_LOAN_FEE == 1000
INIT_MAX_FLASH_LOAN_RATIO == 100000
ALGO_ASSET_ID == 1
MAX_AMPLIFICATION_FACTOR == 400000000
DEFAULT_STABLESWAP_FEE_PCT_SCALED == 1000
FLASH_LOAN_IDX == 0

(***************************************************************************)
(* Bounds of the model                                                     *)
(***************************************************************************)
\* latest_timestamp does not advance beyond MaxTime
MaxTime == 11
\* number of balance-changing calls (accepted or rejected) in one behaviour
MaxOps == 2
\* number of manager parameter changes in one behaviour
MaxManagerOps == 1
MaxAdminOps == 3
\* number of ramps of the amplification factor followed second by second
MaxRamps == 2
\* number of balance-changing groups of one liquidity provider's round
MaxRoundOps == 3

\* every modelled amount is below 2^30
ModelLimit == 2^30

(***************************************************************************)
(* uint64 arithmetic of the AVM, exact on the modelled range               *)
(***************************************************************************)
\* one doubling step: from h = <<q, r>> with a * (b \div 2) = q * c + r to
\* <<q, r>> with a * b = q * c + r; <<-1, 0>> when q would reach 2^31.  The
\* remainder is doubled and added to by comparison, so that no sum exceeds c
MulDivStep(h, a, b, c) ==
    IF h[1] < 0 THEN h
    ELSE LET c1  == IF h[2] >= c - h[2] THEN 1 ELSE 0
             r2  == IF c1 = 1 THEN h[2] - (c - h[2]) ELSE h[2] + h[2]
             t   == (b % 2) * (a % c)
             c2  == IF r2 >= c - t THEN 1 ELSE 0
             r3  == IF c2 = 1 THEN r2 - (c - t) ELSE r2 + t
             inc == c1 + c2 + (b % 2) * (a \div c)
         IN  IF h[1] > (2147483647 - inc) \div 2
             THEN <<-1, 0>>
             ELSE <<h[1] + h[1] + inc, r3>>

\* <<q, r>> with a * b = q * c + r and 0 <= r < c, for 0 < c < 2^31 and
\* a, b < 2^31, computed by doubling so that no intermediate value exceeds
\* 2^31 - 1; <<-1, 0>> when q >= 2^31 (outside the modelled range)
RECURSIVE MulDivQR(_, _, _)
MulDivQR(a, b, c) ==
    IF a = 0 \/ b = 0 THEN <<0, 0>>
    ELSE IF a <= 2147483647 \div b THEN <<(a * b) \div c, (a * b) % c>>
    ELSE MulDivStep(MulDivQR(a, b \div 2, c), a, b, c)

\* pyteal WideRatio([a, b], [c]) = floor(a * b / c); the caller checks c > 0.
\* -1 when the quotient is outside the modelled range
WideRatio(a, b, c) == MulDivQR(a, b, c)[1]

\* floor(a * b / c) is below 2^31
FitsRatio(a, b, c) == WideRatio(a, b, c) >= 0

\* a * b as <<high, low>> in base 2^30, for a, b < 2^30
WideMul(a, b) == MulDivQR(a, b, ModelLimit)

WideLeq(x, y) == x[1] < y[1] \/ (x[1] = y[1] /\ x[2] <= y[2])

\* largest s in [lo, hi) with s * s <= n, n = <<high, low>>; lo * lo <= n < hi * hi
RECURSIVE SqrtSearch(_, _, _)
SqrtSearch(lo, hi, n) ==
    IF hi - lo <= 1 THEN lo
    ELSE LET mid == (lo + hi) \div 2
         IN  IF WideLeq(WideMul(mid, mid), n)
             THEN SqrtSearch(mid, hi, n)
             ELSE SqrtSearch(lo, mid, n)

\* pyteal Sqrt(a * b): the integer square root of the product
SqrtOfProduct(a, b) == SqrtSearch(0, ModelLimit, WideMul(a, b))

\* pyteal Sqrt(a)
Sqrt(a) == SqrtOfProduct(a, 1)

\* MAX_INT_U64 / a > b.  For a, b < 2^30 the quotient is at least 2^34, so
\* on the modelled range the comparison is decided by a alone (a = 0 fails
\* the program with a division by zero, which the callers exclude)
MaxU64DivGreater(a, b) == a > 0 /\ b < ModelLimit

(***************************************************************************)
(* uint64 values at full width.  A natural number is the sequence of its   *)
(* digits in base 2^15, least significant first, without leading zeros     *)
(* (<<>> is 0), so that every digit product stays below 2^31.              *)
(***************************************************************************)
Radix == 2^15

\* s without its leading zeros
BigNorm(s) ==
    IF \A k \in 1..Len(s) : s[k] = 0 THEN <<>>
    ELSE SubSeq(s, 1, CHOOSE k \in 1..Len(s) :
                          s[k] # 0 /\ \A i \in (k + 1)..Len(s) : s[i] = 0)

\* the number n, 0 <= n < 2^31
RECURSIVE BigOf(_)
BigOf(n) == IF n = 0 THEN <<>> ELSE <<n % Radix>> \o BigOf(n \div Radix)

\* 2^k
RECURSIVE BigTwoTo(_)
BigTwoTo(k) == IF k < 15 THEN <<2^k>> ELSE <<0>> \o BigTwoTo(k - 15)

BigDigit(s, k) == IF k <= Len(s) THEN s[k] ELSE 0

RECURSIVE BigAddFrom(_, _, _, _)
BigAddFrom(a, b, k, carry) ==
    IF k > Len(a) /\ k > Len(b)
    THEN IF carry = 0 THEN <<>> ELSE <<carry>>
    ELSE <<(BigDigit(a, k) + BigDigit(b, k) + carry) % Radix>>
         \o BigAddFrom(a, b, k + 1,
                       (BigDigit(a, k) + BigDigit(b, k) + carry) \div Radix)

BigAdd(a, b) == BigAddFrom(a, b, 1, 0)

\* a - b for a >= b
RECURSIVE BigSubFrom(_, _, _, _)
BigSubFrom(a, b, k, borrow) ==
    IF k > Len(a) THEN <<>>
    ELSE <<(a[k] - BigDigit(b, k) - borrow + Radix) % Radix>>
         \o BigSubFrom(a, b, k + 1,
                       IF a[k] - BigDigit(b, k) - borrow < 0 THEN 1 ELSE 0)

BigSub(a, b) == BigNorm(BigSubFrom(a, b, 1, 0))

\* a times the digit d
RECURSIVE BigMulDigit(_, _, _, _)
BigMulDigit(a, d, k, carry) ==
    IF k > Len(a) THEN IF carry = 0 THEN <<>> ELSE <<carry>>
    ELSE <<(a[k] * d + carry) % Radix>>
         \o BigMulDigit(a, d, k + 1, (a[k] * d + carry) \div Radix)

BigTimesDigit(a, d) == BigNorm(BigMulDigit(a, d, 1, 0))

BigShift(s) == IF s = <<>> THEN s ELSE <<0>> \o s

\* s * Radix^n
BigShiftBy(s, n) == IF s = <<>> THEN s ELSE [k \in 1..n |-> 0] \o s

\* the sum of a * b[k] * Radix^(k - 1) for k in lo..hi
RECURSIVE BigMulSum(_, _, _, _)
BigMulSum(a, b, lo, hi) ==
    IF lo = hi THEN BigShiftBy(BigTimesDigit(a, b[lo]), lo - 1)
    ELSE BigAdd(BigMulSum(a, b, lo, (lo + hi) \div 2),
                BigMulSum(a, b, (lo + hi) \div 2 + 1, hi))

BigMul(a, b) ==
    IF a = <<>> \/ b = <<>> THEN <<>> ELSE BigMulSum(a, b, 1, Len(b))

RECURSIVE BigLessAt(_, _, _)
BigLessAt(a, b, k) ==
    IF k = 0 THEN FALSE
    ELSE IF a[k] # b[k] THEN a[k] < b[k]
    ELSE BigLessAt(a, b, k - 1)

BigLess(a, b) ==
    IF Len(a) # Len(b) THEN Len(a) < Len(b) ELSE BigLessAt(a, b, Len(a))

BigLeq(a, b) == ~BigLess(b, a)

\* floor(a / 2)
BigHalf(a) ==
    BigNorm([k \in 1..Len(a) |->
                 (a[k] + (BigDigit(a, k + 1) % 2) * Radix) \div 2])

\* long division.  A digit of the quotient, bit by bit from bit hi down to
\* bit lo: q holds the bits above hi, and q * b <= r
RECURSIVE BigDivBits(_, _, _, _, _)
BigDivBits(q, r, b, hi, lo) ==
    IF hi = lo
    THEN IF BigLeq(BigTimesDigit(b, q + 2^hi), r) THEN q + 2^hi ELSE q
    ELSE CHOOSE res \in
             {BigDivBits(high, r, b, (hi + lo) \div 2, lo) :
                  high \in {BigDivBits(q, r, b, hi, (hi + lo) \div 2 + 1)}} :
             TRUE

\* the digit d of the quotient and what is left of r
BigDivPut(b, r, d) == <<<<d>>, BigSub(r, BigTimesDigit(b, d))>>

BigDivCat(high, low) == <<low[1] \o high, low[2]>>

\* the digits a[hi] down to a[lo] brought down onto the remainder r < b:
\* their quotient digits and the new remainder
RECURSIVE BigDivRange(_, _, _, _, _)
RECURSIVE BigDivJoin(_, _, _, _, _)
BigDivRange(a, b, hi, lo, r) ==
    IF hi = lo
    THEN CHOOSE res \in
             {BigDivPut(b, BigNorm(<<a[hi]>> \o r), d) :
                  d \in {BigDivBits(0, BigNorm(<<a[hi]>> \o r), b, 14, 0)}} :
             TRUE
    ELSE CHOOSE res \in
             {BigDivJoin(a, b, (hi + lo) \div 2, lo, high) :
                  high \in {BigDivRange(a, b, hi, (hi + lo) \div 2 + 1, r)}} :
             TRUE

BigDivJoin(a, b, hi, lo, high) ==
    CHOOSE res \in
        {BigDivCat(high[1], low) :
             low \in {BigDivRange(a, b, hi, lo, high[2])}} :
        TRUE

\* floor(a / b) for b > 0
BigDiv(a, b) ==
    IF a = <<>> THEN <<>>
    ELSE BigNorm(BigDivRange(a, b, Len(a), 1, <<>>)[1])

\* the largest s in [lo, hi) with s * s <= n, given lo * lo <= n < hi * hi
RECURSIVE BigSqrtSearch(_, _, _)
RECURSIVE BigSqrtStep(_, _, _, _)
BigSqrtSearch(lo, hi, n) ==
    IF BigLeq(hi, BigAdd(lo, <<1>>)) THEN lo
    ELSE BigSqrtStep(lo, hi, BigHalf(BigAdd(lo, hi)), n)

BigSqrtStep(lo, hi, mid, n) ==
    IF BigLeq(BigMul(mid, mid), n) THEN BigSqrtSearch(mid, hi, n)
    ELSE BigSqrtSearch(lo, mid, n)

\* the integer square root of n (the AVM's sqrt opcode)
BigSqrt(n) == BigSqrtSearch(<<>>, BigAdd(n, <<1>>), n)

\* MAX_INT_U64 = 2^64 - 1
MAX_INT_U64 == BigSub(BigTwoTo(64), <<1>>)

\* the value fits a uint64; the AVM's +, - and * fail when the result does not
FitsU64(x) == BigLeq(x, MAX_INT_U64)


(***************************************************************************)
(* Transactions.  A group is a sequence of transactions; Gtxn[k] of the    *)
(* source (k from 0) is g[k + 1].  A field a transaction type does not     *)
(* carry reads as its zero value, as in the AVM.                           *)
(***************************************************************************)
NoTxn ==
    [type |-> "none", sender |-> "none", receiver |-> "none", amount |-> 0,
     xfer_asset |-> 0, asset_receiver |-> "none", asset_amount |-> 0,
     application_id |-> "none", on_completion |-> "NoOp", arg0 |-> "none",
     arg1 |-> 0, arg2 |-> 0]

Payment(from, to, amt) ==
    [NoTxn EXCEPT !.type = "pay", !.sender = from, !.receiver = to,
                  !.amount = amt]

AssetTransfer(from, asset, to, amt) ==
    [NoTxn EXCEPT !.type = "axfer", !.sender = from, !.xfer_asset = asset,
                  !.asset_receiver = to, !.asset_amount = amt]

ApplicationCall(from, oc, name, a1, a2) ==
    [NoTxn EXCEPT !.type = "appl", !.sender = from, !.application_id = "pool",
                  !.on_completion = oc, !.arg0 = name, !.arg1 = a1,
                  !.arg2 = a2]

\* Gtxn[k] exists
InGroup(g, k) == k >= 0 /\ k < Len(g)

Gtxn(g, k) == g[k + 1]

verify_txn_is_named_application_call(g, idx, name) ==
    /\ InGroup(g, idx)
    /\ Gtxn(g, idx).on_completion = "NoOp"
    /\ Gtxn(g, idx).type = "appl"
    /\ Gtxn(g, idx).application_id = "pool"
    /\ Gtxn(g, idx).arg0 = name

verify_txn_is_sending_algos_to_pool(g, idx) ==
    /\ InGroup(g, idx)
    /\ Gtxn(g, idx).type = "pay"
    /\ Gtxn(g, idx).receiver = "pool"
    /\ Gtxn(g, idx).amount > 0

verify_txn_is_sending_asa_to_pool(g, idx, asset_id) ==
    /\ InGroup(g, idx)
    /\ Gtxn(g, idx).type = "axfer"
    /\ Gtxn(g, idx).xfer_asset = asset_id
    /\ Gtxn(g, idx).asset_receiver = "pool"
    /\ Gtxn(g, idx).asset_amount > 0

(***************************************************************************)
(* State                                                                   *)
(***************************************************************************)
VARIABLES
    pool,       \* the pool's global state, one field per WrappedVar
    manager,    \* the manager's global state the pool reads
    now,        \* Global.latest_timestamp()
    last,       \* the last group submitted: its transactions and what each
                \* pool call of it did
    sched,      \* history: time, param_update_delay and new_fee of the last
                \* accepted schedule_swap_fee_update
    nops,       \* groups submitted so far that hold a balance-changing call
    nadm,       \* pool admin calls submitted so far
    nmgr,       \* manager parameter changes so far
    calc        \* a first deposit at full uint64 width: the amounts
                \* transferred in and, once the call has run, what it did

vars == <<pool, manager, now, last, sched, nops, nadm, nmgr, calc>>

\* asset ids of the modelled pools: ALGO or asset 5 against asset 7; the LP
\* asset the pool creates gets id 9
ASSET2_ID == 7
LP_ID == 9

\* the global state after on_creation: an unset key reads as 0
CreatedPool(a1) ==
    [admin |-> "admin", initialized |-> FALSE, asset1_id |-> a1,
     asset2_id |-> ASSET2_ID, lp_id |-> 0, balance_1 |-> 0, balance_2 |-> 0,
     lp_circulation |-> 0, reserve_factor |-> 0, asset1_reserve |-> 0,
     asset2_reserve |-> 0, latest_time |-> 0, flash_loan_fee |-> 0,
     max_flash_loan_ratio |-> 0, swap_fee_pct_scaled_var |-> 0,
     swap_fee_update_time |-> 0, next_swap_fee_pct_scaled_var |-> 0,
     param_update_delay |-> 0, stable |-> FALSE,
     initial_amplification_factor |-> 0, future_amplification_factor |-> 0,
     initial_amplification_factor_time |-> 0,
     future_amplification_factor_time |-> 0]

\* the global state after AlgofiAMMStablePool.on_creation;
\* amplification_factor = application_args[2]
CreatedStablePool(a1, amplification_factor) ==
    [CreatedPool(a1) EXCEPT
        !.stable = TRUE,
        !.future_amplification_factor = amplification_factor]

\* what one pool call did: the amounts it credited from the transfers it
\* validated, the amounts it sent by inner transactions and the scratch
\* values a later call of the group imports
NoOut ==
    [in1 |-> 0, in2 |-> 0, lp_in |-> 0, sent1 |-> 0, sent2 |-> 0,
     sent_lp |-> 0, fee |-> 0, fee_is_asset1 |-> FALSE, adj1 |-> 0,
     adj2 |-> 0, pool_asset1_residual |-> 0, pool_asset2_residual |-> 0,
     swap_input_is_asset1 |-> FALSE, residual_amount |-> 0,
     to_reserve |-> 0]

\* the program fails: the AVM discards the writes of the whole group
Fail(st) == [ok |-> FALSE, modelled |-> TRUE, st |-> st, o |-> NoOut]

\* the call's intermediate values leave the modelled range
NotModelled(st) == [ok |-> FALSE, modelled |-> FALSE, st |-> st, o |-> NoOut]

Approve(st, o) == [ok |-> TRUE, modelled |-> TRUE, st |-> st, o |-> o]

(***************************************************************************)
(* Pool helpers                                                            *)
(***************************************************************************)
pool_is_empty(st) == st.balance_1 + st.balance_2 = 0

\* the manager value is present and at most FIXED_6_SCALE_FACTOR
manager_value_ok(mgr, v) == mgr.exists /\ v <= FIXED_6_SCALE_FACTOR

\* the pool keeps the reserve factor it has
update_reserve_factor_stale(st, mgr) == st

update_reserve_factor(st, mgr) ==
    [st EXCEPT !.reserve_factor = mgr.reserve_factor]

update_flash_loan_fee(st, mgr) ==
    [st EXCEPT !.flash_loan_fee = mgr.flash_loan_fee]

update_max_flash_loan_ratio(st, mgr) ==
    [st EXCEPT !.max_flash_loan_ratio = mgr.max_flash_loan_ratio]

\* the whole fee moved to the reserve, whatever the reserve factor
fee_to_reserve_whole(st, amount) == amount

\* the part of a fee that update_reserves moves from the balance to the reserve
fee_to_reserve(st, amount) ==
    WideRatio(amount, st.reserve_factor, FIXED_6_SCALE_FACTOR)

\* update_reserves that adds to the reserve what it leaves in the balance
update_reserves_no_debit(st, fee_is_asset1, amount) ==
    IF fee_is_asset1
    THEN [st EXCEPT !.asset1_reserve = @ + fee_to_reserve(st, amount)]
    ELSE [st EXCEPT !.asset2_reserve = @ + fee_to_reserve(st, amount)]

\* update_reserves; the caller has checked that the balance covers the move
update_reserves(st, fee_is_asset1, amount) ==
    IF fee_is_asset1
    THEN [st EXCEPT !.balance_1 = @ - fee_to_reserve(st, amount),
                    !.asset1_reserve = @ + fee_to_reserve(st, amount)]
    ELSE [st EXCEPT !.balance_2 = @ - fee_to_reserve(st, amount),
                    !.asset2_reserve = @ + fee_to_reserve(st, amount)]

\* the uint64 subtraction of update_reserves does not underflow
update_reserves_ok(st, fee_is_asset1, amount) ==
    IF fee_is_asset1
    THEN st.balance_1 >= fee_to_reserve(st, amount)
    ELSE st.balance_2 >= fee_to_reserve(st, amount)

\* validate_asset_ratio without the minimum of balance_1
validate_asset_ratio_no_minimum_1(st) ==
    /\ st.balance_1 > 0
    /\ st.balance_2 >= MIN_POOL_BALANCE
    /\ st.balance_1 \div st.balance_2 < MAX_ASSET_RATIO
    /\ st.balance_2 \div st.balance_1 < MAX_ASSET_RATIO

validate_asset_ratio(st) ==
    /\ st.balance_1 >= MIN_POOL_BALANCE
    /\ st.balance_2 >= MIN_POOL_BALANCE
    /\ st.balance_1 \div st.balance_2 < MAX_ASSET_RATIO
    /\ st.balance_2 \div st.balance_1 < MAX_ASSET_RATIO

convert_asset1_to_lp(st, asset1_amount) ==
    WideRatio(asset1_amount, st.lp_circulation, st.balance_1)

convert_asset2_to_lp(st, asset2_amount) ==
    WideRatio(asset2_amount, st.lp_circulation, st.balance_2)

\* the conversion rounded up instead of down
convert_lp_to_asset1_rounded_up(st, amount_lp) ==
    WideRatio(amount_lp, st.balance_1, st.lp_circulation) + 1

convert_lp_to_asset1(st, amount_lp) ==
    WideRatio(amount_lp, st.balance_1, st.lp_circulation)

convert_lp_to_asset2(st, amount_lp) ==
    WideRatio(amount_lp, st.balance_2, st.lp_circulation)

\* the quote at the pre-trade price: the input is left out of the divisor
swap_exact_asset1_for_at_price(st, asset1_amount) ==
    WideRatio(st.balance_2, asset1_amount, st.balance_1)

swap_exact_asset1_for(st, asset1_amount) ==
    WideRatio(st.balance_2, asset1_amount, st.balance_1 + asset1_amount)

\* the quote of the other direction: the two balances change places
swap_exact_asset2_for_as_asset1(st, asset2_amount) ==
    WideRatio(st.balance_2, asset2_amount, st.balance_1 + asset2_amount)

swap_exact_asset2_for(st, asset2_amount) ==
    WideRatio(st.balance_1, asset2_amount, st.balance_2 + asset2_amount)

\* the caller has checked asset1_amount < balance_1 (else the subtraction
\* underflows or the division is by zero); -1 when outside the modelled range
swap_for_exact_asset1_amount(st, asset1_amount) ==
    IF FitsRatio(st.balance_2, asset1_amount, st.balance_1 - asset1_amount)
    THEN WideRatio(st.balance_2, asset1_amount,
                   st.balance_1 - asset1_amount) + 1
    ELSE -1

\* the required input without the unit added to the quotient
swap_for_exact_asset2_amount_floor(st, asset2_amount) ==
    IF FitsRatio(st.balance_1, asset2_amount, st.balance_2 - asset2_amount)
    THEN WideRatio(st.balance_1, asset2_amount,
                   st.balance_2 - asset2_amount)
    ELSE -1

swap_for_exact_asset2_amount(st, asset2_amount) ==
    IF FitsRatio(st.balance_1, asset2_amount, st.balance_2 - asset2_amount)
    THEN WideRatio(st.balance_1, asset2_amount,
                   st.balance_2 - asset2_amount) + 1
    ELSE -1

(***************************************************************************)
(* initialize_pool and the admin functions                                 *)
(***************************************************************************)
on_initialize_pool(st, txn, mgr, time) ==
    IF ~(txn.on_completion = "NoOp" /\ txn.type = "appl") THEN Fail(st)
    ELSE IF st.initialized THEN Fail(st)
    ELSE IF ~(/\ manager_value_ok(mgr, mgr.reserve_factor)
              /\ manager_value_ok(mgr, mgr.flash_loan_fee)
              /\ manager_value_ok(mgr, mgr.max_flash_loan_ratio))
    THEN Fail(st)
    ELSE Approve(
        [update_max_flash_loan_ratio(
            update_flash_loan_fee(update_reserve_factor(st, mgr), mgr), mgr)
         EXCEPT !.lp_id = LP_ID,
                !.param_update_delay = DEFAULT_PARAM_UPDATE_DELAY,
                !.latest_time = time,
                !.balance_1 = 0, !.balance_2 = 0, !.lp_circulation = 0,
                !.asset1_reserve = 0, !.asset2_reserve = 0,
                !.swap_fee_pct_scaled_var =
                    IF st.stable THEN DEFAULT_STABLESWAP_FEE_PCT_SCALED
                    ELSE DEFAULT_SWAP_FEE_PCT_SCALED,
                !.initialized = TRUE],
        NoOut)

\* on_update_swap_fee that also accepts the scheduled time itself
on_update_swap_fee_at_update_time(st, txn, time) ==
    IF txn.sender # st.admin THEN Fail(st)
    ELSE IF ~(st.swap_fee_update_time > 0) THEN Fail(st)
    ELSE IF ~(time >= st.swap_fee_update_time) THEN Fail(st)
    ELSE Approve(
        [st EXCEPT !.swap_fee_pct_scaled_var = st.next_swap_fee_pct_scaled_var],
        NoOut)

\* on_update_swap_fee without the Assert that an update is scheduled
on_update_swap_fee_unscheduled(st, txn, time) ==
    IF txn.sender # st.admin THEN Fail(st)
    ELSE IF ~(time > st.swap_fee_update_time) THEN Fail(st)
    ELSE Approve(
        [st EXCEPT !.swap_fee_pct_scaled_var = st.next_swap_fee_pct_scaled_var],
        NoOut)

on_update_swap_fee(st, txn, time) ==
    IF txn.sender # st.admin THEN Fail(st)
    ELSE IF ~(st.swap_fee_update_time > 0) THEN Fail(st)
    ELSE IF ~(time > st.swap_fee_update_time) THEN Fail(st)
    ELSE Approve(
        [st EXCEPT !.swap_fee_pct_scaled_var = st.next_swap_fee_pct_scaled_var],
        NoOut)

\* on_schedule_swap_fee_update without the lower bound of new_fee
on_schedule_swap_fee_update_any_fee(st, txn, time) ==
    IF txn.sender # st.admin THEN Fail(st)
    ELSE IF ~(txn.arg1 >= time + st.param_update_delay) THEN Fail(st)
    ELSE IF ~(txn.arg2 < FIXED_6_SCALE_FACTOR) THEN Fail(st)
    ELSE Approve(
        [st EXCEPT !.swap_fee_update_time = txn.arg1,
                   !.next_swap_fee_pct_scaled_var = txn.arg2],
        NoOut)

\* update_time = arg1, new_fee = arg2
on_schedule_swap_fee_update(st, txn, time) ==
    IF txn.sender # st.admin THEN Fail(st)
    ELSE IF ~(txn.arg1 >= time + st.param_update_delay) THEN Fail(st)
    ELSE IF ~(txn.arg2 > 0) THEN Fail(st)
    ELSE IF ~(txn.arg2 < FIXED_6_SCALE_FACTOR) THEN Fail(st)
    ELSE Approve(
        [st EXCEPT !.swap_fee_update_time = txn.arg1,
                   !.next_swap_fee_pct_scaled_var = txn.arg2],
        NoOut)

\* on_increase_param_delay that takes any new delay
on_increase_param_delay_any_value(st, txn) ==
    IF txn.sender # st.admin THEN Fail(st)
    ELSE Approve([st EXCEPT !.param_update_delay = txn.arg1], NoOut)

\* new_param_update_delay = arg1
on_increase_param_delay(st, txn) ==
    IF txn.sender # st.admin THEN Fail(st)
    ELSE IF ~(txn.arg1 > st.param_update_delay) THEN Fail(st)
    ELSE Approve([st EXCEPT !.param_update_delay = txn.arg1], NoOut)

\* on_remove_reserves that resets asset1_reserve only
on_remove_reserves_keeps_asset2(st, txn) ==
    IF txn.sender # st.admin THEN Fail(st)
    ELSE Approve(
        [st EXCEPT !.asset1_reserve = 0],
        [NoOut EXCEPT !.sent1 = st.asset1_reserve,
                      !.sent2 = st.asset2_reserve])

on_remove_reserves(st, txn) ==
    IF txn.sender # st.admin THEN Fail(st)
    ELSE Approve(
        [st EXCEPT !.asset1_reserve = 0, !.asset2_reserve = 0],
        [NoOut EXCEPT !.sent1 = st.asset1_reserve,
                      !.sent2 = st.asset2_reserve])

(***************************************************************************)
(* The stable pool's amplification factor (src/algofi/amm/stable_pool.py)  *)
(***************************************************************************)
\* the interpolation over the time since 0, not since initial_A_time
interpolate_amplification_factor_from_zero(initial_A, future_A, initial_A_time, future_A_time, time) ==
    IF ~(time < future_A_time) THEN future_A
    ELSE IF future_A_time = initial_A_time THEN -1
    ELSE IF future_A > initial_A
    THEN initial_A
         + MulDivQR(future_A - initial_A, time,
                    future_A_time - initial_A_time)[1]
    ELSE initial_A
         - MulDivQR(initial_A - future_A, time,
                    future_A_time - initial_A_time)[1]

\* interpolate_amplification_factor at latest_timestamp = time; -1 when a
\* uint64 subtraction underflows or the divisor is 0 (the program fails)
interpolate_amplification_factor(initial_A, future_A, initial_A_time, future_A_time, time) ==
    IF ~(time < future_A_time) THEN future_A
    ELSE IF time < initial_A_time \/ future_A_time = initial_A_time THEN -1
    ELSE IF future_A > initial_A
    THEN initial_A
         + MulDivQR(future_A - initial_A, time - initial_A_time,
                    future_A_time - initial_A_time)[1]
    ELSE IF MulDivQR(initial_A - future_A, time - initial_A_time,
                     future_A_time - initial_A_time)[1] > initial_A
    THEN -1
    ELSE initial_A
         - MulDivQR(initial_A - future_A, time - initial_A_time,
                    future_A_time - initial_A_time)[1]

get_amplification_factor(st, time) ==
    interpolate_amplification_factor(
        st.initial_amplification_factor, st.future_amplification_factor,
        st.initial_amplification_factor_time,
        st.future_amplification_factor_time, time)

\* ramp_amplification_factor without the Assert on future_time
on_ramp_amplification_factor_any_time(st, txn, time) ==
    IF txn.sender # st.admin THEN Fail(st)
    ELSE IF get_amplification_factor(st, time) < 0 THEN Fail(st)
    ELSE IF ~(txn.arg1 > 0) THEN Fail(st)
    ELSE IF ~(txn.arg1 < MAX_AMPLIFICATION_FACTOR) THEN Fail(st)
    ELSE Approve(
        [st EXCEPT
            !.initial_amplification_factor =
                get_amplification_factor(st, time),
            !.future_amplification_factor = txn.arg1,
            !.initial_amplification_factor_time = time,
            !.future_amplification_factor_time = txn.arg2],
        NoOut)

\* ramp_amplification_factor without the put of initial_A
on_ramp_amplification_factor_stale_initial(st, txn, time) ==
    IF txn.sender # st.admin THEN Fail(st)
    ELSE IF get_amplification_factor(st, time) < 0 THEN Fail(st)
    ELSE IF ~(txn.arg2 >= time + st.param_update_delay) THEN Fail(st)
    ELSE IF ~(txn.arg1 > 0) THEN Fail(st)
    ELSE IF ~(txn.arg1 < MAX_AMPLIFICATION_FACTOR) THEN Fail(st)
    ELSE Approve(
        [st EXCEPT
            !.future_amplification_factor = txn.arg1,
            !.initial_amplification_factor_time = time,
            !.future_amplification_factor_time = txn.arg2],
        NoOut)

\* future_A = arg1, future_time = arg2
on_ramp_amplification_factor(st, txn, time) ==
    IF txn.sender # st.admin THEN Fail(st)
    ELSE IF get_amplification_factor(st, time) < 0 THEN Fail(st)
    ELSE IF ~(txn.arg2 >= time + st.param_update_delay) THEN Fail(st)
    ELSE IF ~(txn.arg1 > 0) THEN Fail(st)
    ELSE IF ~(txn.arg1 < MAX_AMPLIFICATION_FACTOR) THEN Fail(st)
    ELSE Approve(
        [st EXCEPT
            !.initial_amplification_factor =
                get_amplification_factor(st, time),
            !.future_amplification_factor = txn.arg1,
            !.initial_amplification_factor_time = time,
            !.future_amplification_factor_time = txn.arg2],
        NoOut)

(***************************************************************************)
(* StableSwap invariant (src/algofi/amm/stable_swap_math.py).  The byte     *)
(* arithmetic of the AVM is exact on naturals; uint64 results are checked   *)
(* for their width.                                                        *)
(***************************************************************************)
\* the value of a digit sequence below 2^31
RECURSIVE BigValue(_)
BigValue(s) == IF s = <<>> THEN 0 ELSE s[1] + Radix * BigValue(Tail(s))

\* |a - b|
BigDistance(a, b) == IF BigLess(a, b) THEN BigSub(b, a) ELSE BigSub(a, b)

\* Ann_calc = amplification_param * n_coins ^ n_coins
Ann_calc(amplification_param) == amplification_param * 4

\* compute_D before its loop: S, AnnS, D_prod_denom and the first guess S.
\* The amounts are digit sequences, the amplification factor an integer
compute_D_start(asset1_amount, asset2_amount, amplification_param) ==
    [status |-> IF ~FitsU64(BigAdd(asset1_amount, asset2_amount))
                THEN "failed"
                ELSE IF BigAdd(asset1_amount, asset2_amount) = <<>>
                THEN "returned" ELSE "running",
     i |-> 0,
     Ann |-> Ann_calc(amplification_param),
     AnnS |-> BigDiv(BigMul(BigOf(Ann_calc(amplification_param)),
                            BigAdd(asset1_amount, asset2_amount)),
                     BigOf(FIXED_6_SCALE_FACTOR)),
     D_prod_denom |-> BigMul(<<4>>, BigMul(asset2_amount, asset1_amount)),
     D_estimate |-> BigAdd(asset1_amount, asset2_amount)]

\* D_estimate_denom_calc; Ann_calc - FIXED_6_SCALE_FACTOR is not below 0
D_estimate_denom_calc(c, D_prod) ==
    BigAdd(BigDiv(BigMul(BigOf(c.Ann - FIXED_6_SCALE_FACTOR), c.D_estimate),
                  BigOf(FIXED_6_SCALE_FACTOR)),
           BigMul(D_prod, <<3>>))

D_estimate_num_calc(c, D_prod) ==
    BigMul(BigAdd(c.AnnS, BigMul(D_prod, <<2>>)), c.D_estimate)

\* the end of one pass: return when the estimates differ by at most 1
compute_D_compare(c, D_estimate) ==
    IF BigLeq(BigDistance(D_estimate, c.D_estimate), <<1>>)
    THEN [c EXCEPT !.status = IF FitsU64(D_estimate)
                              THEN "returned" ELSE "failed",
                   !.D_estimate = D_estimate,
                   !.i = @ + 1]
    ELSE [c EXCEPT !.D_estimate = D_estimate, !.i = @ + 1]

\* D_estimate.store(D_estimate_calc): the division fails for a divisor 0
compute_D_estimate(c, D_prod, denom) ==
    IF denom = <<>> THEN [c EXCEPT !.status = "failed"]
    ELSE compute_D_compare(c, BigDiv(D_estimate_num_calc(c, D_prod), denom))

compute_D_prod(c, D_prod) ==
    compute_D_estimate(c, D_prod, D_estimate_denom_calc(c, D_prod))

\* one pass of the loop of compute_D, or the Assert after its 255th pass.
\* Ann_calc - FIXED_6_SCALE_FACTOR is a uint64 subtraction: it fails below 0
compute_D_pass(c) ==
    IF c.i >= 255 THEN [c EXCEPT !.status = "failed"]
    ELSE IF c.D_prod_denom = <<>> THEN [c EXCEPT !.status = "failed"]
    ELSE IF c.Ann < FIXED_6_SCALE_FACTOR THEN [c EXCEPT !.status = "failed"]
    ELSE compute_D_prod(
             c,
             BigDiv(BigMul(c.D_estimate,
                           BigMul(c.D_estimate, c.D_estimate)),
                    c.D_prod_denom))

RECURSIVE compute_D_loop(_)
compute_D_loop(c) ==
    IF c.status = "running"
    THEN CHOOSE res \in {compute_D_loop(next) : next \in {compute_D_pass(c)}} :
             TRUE
    ELSE c

\* compute_D: status "returned" with the value D_estimate, or "failed"
compute_D(asset1_amount, asset2_amount, amplification_param) ==
    compute_D_loop(
        compute_D_start(asset1_amount, asset2_amount, amplification_param))

\* compute_other_asset_output_stable_swap: where the new estimate is within 1
\* of the previous one ret_calc returns the distance to the previous total
compute_other_compare(o, estimate) ==
    IF BigLeq(BigDistance(estimate, o.estimate), <<1>>)
    THEN [o EXCEPT !.status = "returned",
                   !.estimate = estimate,
                   !.ret = BigDistance(o.previous_output_asset_total, estimate),
                   !.i = @ + 1]
    ELSE [o EXCEPT !.estimate = estimate, !.i = @ + 1]

\* estimate_calc = Btoi(BytesDiv(estimate_num_calc, estimate_denom_calc))
compute_other_estimate(o, estimate) ==
    IF ~FitsU64(estimate) THEN [o EXCEPT !.status = "failed"]
    ELSE compute_other_compare(o, estimate)

\* one pass of the loop, or the Assert after its 255th pass.  The divisor
\* Int(2) * estimate + b - D is uint64 arithmetic, evaluated left to right;
\* the subtraction fails below 0 and the division fails for the divisor 0
compute_other_pass(o) ==
    IF o.i >= 255 THEN [o EXCEPT !.status = "failed"]
    ELSE IF ~FitsU64(BigMul(<<2>>, o.estimate))
    THEN [o EXCEPT !.status = "failed"]
    ELSE IF ~FitsU64(BigAdd(BigMul(<<2>>, o.estimate), o.b))
    THEN [o EXCEPT !.status = "failed"]
    ELSE IF BigLeq(BigAdd(BigMul(<<2>>, o.estimate), o.b), o.D)
    THEN [o EXCEPT !.status = "failed"]
    ELSE compute_other_estimate(
             o,
             BigDiv(BigAdd(BigMul(o.estimate, o.estimate), o.c),
                     BigSub(BigAdd(BigMul(<<2>>, o.estimate), o.b), o.D)))

\* c_calc, for a divisor that is not 0
c_calc(D, input_asset_new_total, amplification_param) ==
    BigDiv(BigMul(D, BigMul(D, BigMul(D, BigOf(FIXED_6_SCALE_FACTOR)))),
            BigMul(input_asset_new_total,
                   BigMul(BigOf(Ann_calc(amplification_param)), <<4>>)))

\* b_calc without its first summand: WideRatio([D, FIXED_6_SCALE_FACTOR],
\* [Ann_calc]), for Ann_calc > 0
b_calc_ratio(D, amplification_param) ==
    BigDiv(BigMul(D, BigOf(FIXED_6_SCALE_FACTOR)),
            BigOf(Ann_calc(amplification_param)))

NoOther ==
    [status |-> "idle", i |-> 0, D |-> <<>>, b |-> <<>>, c |-> <<>>,
     estimate |-> <<>>, previous_output_asset_total |-> <<>>, ret |-> <<>>]

\* compute_other_asset_output_stable_swap before its loop, where d is what
\* compute_D(input_asset_previous_total, previous_output_asset_total,
\* amplification_param) came to
compute_other_start(input_asset_new_total, previous_output_asset_total, amplification_param, d) ==
    IF d.status # "returned" THEN [NoOther EXCEPT !.status = "failed"]
    ELSE IF Ann_calc(amplification_param) = 0
    THEN [NoOther EXCEPT !.status = "failed"]
    ELSE IF ~FitsU64(b_calc_ratio(d.D_estimate, amplification_param))
    THEN [NoOther EXCEPT !.status = "failed"]
    ELSE IF ~FitsU64(BigAdd(input_asset_new_total,
                            b_calc_ratio(d.D_estimate, amplification_param)))
    THEN [NoOther EXCEPT !.status = "failed"]
    ELSE IF input_asset_new_total = <<>>
    THEN [NoOther EXCEPT !.status = "failed"]
    ELSE [status |-> "running",
          i |-> 0,
          D |-> d.D_estimate,
          b |-> BigAdd(input_asset_new_total,
                       b_calc_ratio(d.D_estimate, amplification_param)),
          c |-> c_calc(d.D_estimate, input_asset_new_total,
                       amplification_param),
          estimate |-> d.D_estimate,
          previous_output_asset_total |-> previous_output_asset_total,
          ret |-> <<>>]

RECURSIVE compute_other_loop(_)
compute_other_loop(o) ==
    IF o.status = "running"
    THEN CHOOSE res \in
             {compute_other_loop(next) : next \in {compute_other_pass(o)}} :
             TRUE
    ELSE o

\* status "returned" with the value ret, or "failed"
compute_other_asset_output_stable_swap(input_asset_new_total, input_asset_previous_total, previous_output_asset_total, amplification_param) ==
    compute_other_loop(
        compute_other_start(
            input_asset_new_total, previous_output_asset_total,
            amplification_param,
            compute_D(input_asset_previous_total, previous_output_asset_total,
                      amplification_param)))

(***************************************************************************)
(* pool: deposit                                                           *)
(***************************************************************************)
AdjustFail ==
    [ok |-> FALSE, modelled |-> TRUE, adj1 |-> 0, adj2 |-> 0,
     res1 |-> 0, res2 |-> 0]

AdjustNotModelled == [AdjustFail EXCEPT !.modelled = FALSE]

Adjusted(x1, x2, r1, r2) ==
    [ok |-> TRUE, modelled |-> TRUE, adj1 |-> x1, adj2 |-> x2,
     res1 |-> r1, res2 |-> r2]

\* the three-way Cond with residuals that leave out the unit added to the
\* adjusted amount
adjust_to_pool_ratio_residual_plus_1(st, a1, a2, pool_asset_ratio, incoming_asset_ratio) ==
    IF incoming_asset_ratio > pool_asset_ratio
    THEN IF ~FitsRatio(a2, st.balance_1, st.balance_2) THEN AdjustNotModelled
         ELSE IF WideRatio(a2, st.balance_1, st.balance_2) + 1 > a1
         THEN AdjustFail
         ELSE Adjusted(WideRatio(a2, st.balance_1, st.balance_2) + 1, a2,
                       a1 - WideRatio(a2, st.balance_1, st.balance_2), 0)
    ELSE IF incoming_asset_ratio < pool_asset_ratio
    THEN IF st.balance_1 = 0 THEN AdjustFail
         ELSE IF ~FitsRatio(a1, st.balance_2, st.balance_1)
         THEN AdjustNotModelled
         ELSE IF WideRatio(a1, st.balance_2, st.balance_1) + 1 > a2
         THEN AdjustFail
         ELSE Adjusted(a1, WideRatio(a1, st.balance_2, st.balance_1) + 1,
                       0, a2 - WideRatio(a1, st.balance_2, st.balance_1))
    ELSE Adjusted(a1, a2, 0, 0)

\* the three-way Cond of adjust_pool_input_amounts
adjust_to_pool_ratio(st, a1, a2, pool_asset_ratio, incoming_asset_ratio) ==
    IF incoming_asset_ratio > pool_asset_ratio
    THEN \* too much asset1
         IF ~FitsRatio(a2, st.balance_1, st.balance_2) THEN AdjustNotModelled
         ELSE IF WideRatio(a2, st.balance_1, st.balance_2) + 1 > a1
         THEN AdjustFail
         ELSE Adjusted(WideRatio(a2, st.balance_1, st.balance_2) + 1, a2,
                       a1 - (WideRatio(a2, st.balance_1, st.balance_2) + 1), 0)
    ELSE IF incoming_asset_ratio < pool_asset_ratio
    THEN \* too much asset2
         IF st.balance_1 = 0 THEN AdjustFail
         ELSE IF ~FitsRatio(a1, st.balance_2, st.balance_1)
         THEN AdjustNotModelled
         ELSE IF WideRatio(a1, st.balance_2, st.balance_1) + 1 > a2
         THEN AdjustFail
         ELSE Adjusted(a1, WideRatio(a1, st.balance_2, st.balance_1) + 1,
                       0, a2 - (WideRatio(a1, st.balance_2, st.balance_1) + 1))
    ELSE Adjusted(a1, a2, 0, 0)

\* adjust_pool_input_amounts with the two bounds of the slippage included
adjust_pool_input_amounts_inclusive(st, a1, a2, slippage) ==
    IF pool_is_empty(st) THEN Adjusted(a1, a2, 0, 0)
    ELSE IF st.balance_2 = 0 \/ a2 = 0 THEN AdjustFail
    ELSE IF ~(/\ FitsRatio(st.balance_1, FIXED_9_SCALE_FACTOR, st.balance_2)
              /\ FitsRatio(a1, FIXED_9_SCALE_FACTOR, a2))
    THEN AdjustNotModelled
    ELSE LET pool_asset_ratio ==
                 WideRatio(st.balance_1, FIXED_9_SCALE_FACTOR, st.balance_2)
             incoming_asset_ratio == WideRatio(a1, FIXED_9_SCALE_FACTOR, a2)
         IN  IF incoming_asset_ratio = 0 THEN AdjustFail
             ELSE IF ~FitsRatio(pool_asset_ratio, FIXED_6_SCALE_FACTOR,
                                incoming_asset_ratio)
             THEN AdjustNotModelled
             ELSE IF slippage > FIXED_6_SCALE_FACTOR THEN AdjustFail
             ELSE IF ~(/\ WideRatio(pool_asset_ratio, FIXED_6_SCALE_FACTOR,
                                    incoming_asset_ratio)
                              >= FIXED_6_SCALE_FACTOR - slippage
                       /\ WideRatio(pool_asset_ratio, FIXED_6_SCALE_FACTOR,
                                    incoming_asset_ratio)
                              =< FIXED_6_SCALE_FACTOR + slippage)
             THEN AdjustFail
             ELSE adjust_to_pool_ratio(st, a1, a2, pool_asset_ratio,
                                       incoming_asset_ratio)

\* pool_slippage_pct_scaled = slippage
adjust_pool_input_amounts(st, a1, a2, slippage) ==
    IF pool_is_empty(st) THEN Adjusted(a1, a2, 0, 0)
    ELSE IF st.balance_2 = 0 \/ a2 = 0 THEN AdjustFail
    ELSE IF ~(/\ FitsRatio(st.balance_1, FIXED_9_SCALE_FACTOR, st.balance_2)
              /\ FitsRatio(a1, FIXED_9_SCALE_FACTOR, a2))
    THEN AdjustNotModelled
    ELSE LET pool_asset_ratio ==
                 WideRatio(st.balance_1, FIXED_9_SCALE_FACTOR, st.balance_2)
             incoming_asset_ratio == WideRatio(a1, FIXED_9_SCALE_FACTOR, a2)
         IN  IF incoming_asset_ratio = 0 THEN AdjustFail
             ELSE IF ~FitsRatio(pool_asset_ratio, FIXED_6_SCALE_FACTOR,
                                incoming_asset_ratio)
             THEN AdjustNotModelled
             ELSE IF slippage > FIXED_6_SCALE_FACTOR THEN AdjustFail
             ELSE IF ~(/\ WideRatio(pool_asset_ratio, FIXED_6_SCALE_FACTOR,
                                    incoming_asset_ratio)
                              > FIXED_6_SCALE_FACTOR - slippage
                       /\ WideRatio(pool_asset_ratio, FIXED_6_SCALE_FACTOR,
                                    incoming_asset_ratio)
                              < FIXED_6_SCALE_FACTOR + slippage)
             THEN AdjustFail
             ELSE adjust_to_pool_ratio(st, a1, a2, pool_asset_ratio,
                                       incoming_asset_ratio)

Min(a, b) == IF a > b THEN b ELSE a

\* the issuance with the larger of the two conversions in the non-empty case
calculate_lp_issuance_larger(st, adj1, adj2) ==
    IF pool_is_empty(st)
    THEN IF MaxU64DivGreater(adj1, adj2)
         THEN SqrtOfProduct(adj1, adj2)
         ELSE Sqrt(adj1) * Sqrt(adj2)
    ELSE IF convert_asset1_to_lp(st, adj1) > convert_asset2_to_lp(st, adj2)
    THEN convert_asset1_to_lp(st, adj1)
    ELSE convert_asset2_to_lp(st, adj2)

\* lp_issued_store; the caller has checked the divisors of the non-empty case
calculate_lp_issuance(st, adj1, adj2) ==
    IF pool_is_empty(st)
    THEN IF MaxU64DivGreater(adj1, adj2)
         THEN SqrtOfProduct(adj1, adj2)
         ELSE Sqrt(adj1) * Sqrt(adj2)
    ELSE Min(convert_asset1_to_lp(st, adj1), convert_asset2_to_lp(st, adj2))

pool_update_balances(st, adj1, adj2, lp_issued, time) ==
    [st EXCEPT !.latest_time = IF pool_is_empty(st) THEN time ELSE @,
               !.balance_1 = @ + adj1,
               !.balance_2 = @ + adj2,
               !.lp_circulation = @ + lp_issued]

validate_asset1_payment_txn(st, g, idx) ==
    IF st.asset1_id = ALGO_ASSET_ID
    THEN verify_txn_is_sending_algos_to_pool(g, idx)
    ELSE verify_txn_is_sending_asa_to_pool(g, idx, st.asset1_id)

pool_asset1_amount(st, t) ==
    IF st.asset1_id = ALGO_ASSET_ID THEN t.amount ELSE t.asset_amount

\* on_pool from the issuance on, without the Assert of lp_issued > 0
pool_issue_any_issuance(st, adj, lp_issued, time) ==
    IF ~validate_asset_ratio(
            pool_update_balances(st, adj.adj1, adj.adj2, lp_issued, time))
    THEN Fail(st)
    ELSE Approve(pool_update_balances(st, adj.adj1, adj.adj2, lp_issued,
                                      time),
                 [NoOut EXCEPT
                     !.in1 = adj.adj1, !.in2 = adj.adj2,
                     !.adj1 = adj.adj1, !.adj2 = adj.adj2,
                     !.sent_lp = lp_issued,
                     !.pool_asset1_residual = adj.res1,
                     !.pool_asset2_residual = adj.res2])

\* on_pool from the issuance on: lp_issued > 0, update_balances,
\* validate_asset_ratio, the transfers out
pool_issue(st, adj, lp_issued, time) ==
    IF ~(lp_issued > 0) THEN Fail(st)
    ELSE IF ~validate_asset_ratio(
                 pool_update_balances(st, adj.adj1, adj.adj2, lp_issued,
                                      time))
    THEN Fail(st)
    ELSE Approve(pool_update_balances(st, adj.adj1, adj.adj2, lp_issued,
                                      time),
                 [NoOut EXCEPT
                     !.in1 = adj.adj1, !.in2 = adj.adj2,
                     !.adj1 = adj.adj1, !.adj2 = adj.adj2,
                     !.sent_lp = lp_issued,
                     !.pool_asset1_residual = adj.res1,
                     !.pool_asset2_residual = adj.res2])

\* AlgofiAMMStablePool.calculate_lp_issuance.  compute_D for balances and an
\* amplification factor of the pool: [ok, modelled, D]; the amplification
\* factor is -1 where get_amplification_factor fails
D_calc(balance_1, balance_2, amplification_factor) ==
    IF amplification_factor < 0 THEN [ok |-> FALSE, modelled |-> TRUE, D |-> 0]
    ELSE CHOOSE res \in
             {IF d.status # "returned"
              THEN [ok |-> FALSE, modelled |-> TRUE, D |-> 0]
              ELSE IF Len(d.D_estimate) > 2
              THEN [ok |-> FALSE, modelled |-> FALSE, D |-> 0]
              ELSE [ok |-> TRUE, modelled |-> TRUE,
                    D |-> BigValue(d.D_estimate)] :
                  d \in {compute_D(BigOf(balance_1), BigOf(balance_2),
                                   amplification_factor)}} :
             TRUE

\* lp_issued_calc with D1 in the place of D1 - D0
lp_issued_calc_whole(st, D0, D1) == WideRatio(st.lp_circulation, D1, D0)

\* lp_issued_calc = WideRatio([lp_circulation, D1_calc - D0], [D0]), for
\* D1 >= D0 > 0
lp_issued_calc(st, D0, D1) == WideRatio(st.lp_circulation, D1 - D0, D0)

\* on_pool of the stable pool from the invariants D0 and D1 on; the empty
\* pool issues D1_calc and does not compute D0
stable_pool_issue(st, adj, D0, D1, time) ==
    IF pool_is_empty(st)
    THEN IF ~D1.modelled THEN NotModelled(st)
         ELSE IF ~D1.ok THEN Fail(st)
         ELSE pool_issue(st, adj, D1.D, time)
    ELSE IF ~D0.modelled \/ ~D1.modelled THEN NotModelled(st)
    ELSE IF ~D0.ok \/ ~D1.ok THEN Fail(st)
    ELSE IF D1.D < D0.D \/ D0.D = 0 THEN Fail(st)
    ELSE IF ~FitsRatio(st.lp_circulation, D1.D - D0.D, D0.D)
    THEN NotModelled(st)
    ELSE pool_issue(st, adj, lp_issued_calc(st, D0.D, D1.D), time)

\* on_pool of the stable pool from the adjusted amounts on.  The inner
\* calls of op_up are taken to be paid for by the fee of the call
stable_pool_adjusted(st, adj, amplification_factor, time) ==
    stable_pool_issue(
        st, adj,
        IF pool_is_empty(st) THEN [ok |-> TRUE, modelled |-> TRUE, D |-> 0]
        ELSE D_calc(st.balance_1, st.balance_2, amplification_factor),
        D_calc(st.balance_1 + adj.adj1, st.balance_2 + adj.adj2,
               amplification_factor),
        time)

\* on_pool from the adjusted amounts adj on
pool_adjusted(st, adj, time) ==
    IF ~adj.modelled THEN NotModelled(st)
    ELSE IF ~adj.ok THEN Fail(st)
    ELSE IF st.stable
    THEN stable_pool_adjusted(st, adj, get_amplification_factor(st, time),
                              time)
    ELSE IF ~pool_is_empty(st) /\ (st.balance_1 = 0 \/ st.balance_2 = 0)
    THEN Fail(st)
    ELSE IF ~pool_is_empty(st)
            /\ ~(/\ FitsRatio(adj.adj1, st.lp_circulation, st.balance_1)
                 /\ FitsRatio(adj.adj2, st.lp_circulation, st.balance_2))
    THEN NotModelled(st)
    ELSE CHOOSE res \in
             {pool_issue(st, adj, lp_issued, time) :
                  lp_issued \in
                      {calculate_lp_issuance(st, adj.adj1, adj.adj2)}} :
             TRUE

\* on_pool at group index i; slippage = arg1
on_pool(st, g, i, time) ==
    IF ~validate_asset1_payment_txn(st, g, i - 2) THEN Fail(st)
    ELSE IF ~verify_txn_is_sending_asa_to_pool(g, i - 1, st.asset2_id)
    THEN Fail(st)
    ELSE IF ~(Gtxn(g, i).on_completion = "NoOp" /\ Gtxn(g, i).type = "appl")
    THEN Fail(st)
    ELSE IF ~verify_txn_is_named_application_call(
                 g, i + 1, "redeem_pool_asset1_residual")
    THEN Fail(st)
    ELSE IF ~verify_txn_is_named_application_call(
                 g, i + 2, "redeem_pool_asset2_residual")
    THEN Fail(st)
    ELSE CHOOSE res \in
             {pool_adjusted(st, adj, time) :
                  adj \in {adjust_pool_input_amounts(
                               st, pool_asset1_amount(st, Gtxn(g, i - 2)),
                               Gtxn(g, i - 1).asset_amount,
                               Gtxn(g, i).arg1)}} :
             TRUE

(***************************************************************************)
(* burn                                                                    *)
(***************************************************************************)
\* burn_asset1_amount_store; -1 when the conversion fails or is not covered
burn_asset1_amount(st, lp_asset_amount) ==
    IF lp_asset_amount = st.lp_circulation THEN st.balance_1
    ELSE IF st.lp_circulation = 0 THEN -1
    ELSE convert_lp_to_asset1(st, lp_asset_amount)

burn_asset2_amount(st, lp_asset_amount) ==
    IF lp_asset_amount = st.lp_circulation THEN st.balance_2
    ELSE IF st.lp_circulation = 0 THEN -1
    ELSE convert_lp_to_asset2(st, lp_asset_amount)

\* the burn leaves balance_1 as it was
burn_asset1_no_decrement(st, amount) == st

\* decrement(balance_1) of handle_burn_asset1_out_txn
burn_asset1_decrement(st, amount) == [st EXCEPT !.balance_1 = @ - amount]

\* the burn leaves lp_circulation as it was
burn_asset2_keeps_lp_circulation(st, amount, lp_asset_amount) ==
    [st EXCEPT !.balance_2 = @ - amount]

\* the two decrements of handle_burn_asset2_out_txn
burn_asset2_decrement(st, amount, lp_asset_amount) ==
    [st EXCEPT !.balance_2 = @ - amount,
               !.lp_circulation = @ - lp_asset_amount]

\* on_burn_asset1_out that does not look for the burn_asset2_out call
on_burn_asset1_out_alone(st, g, i) ==
    IF ~verify_txn_is_sending_asa_to_pool(g, i - 1, st.lp_id) THEN Fail(st)
    ELSE IF ~(Gtxn(g, i).on_completion = "NoOp" /\ Gtxn(g, i).type = "appl")
    THEN Fail(st)
    ELSE LET lp_asset_amount == Gtxn(g, i - 1).asset_amount
             amount == burn_asset1_amount(st, lp_asset_amount)
         IN  IF ~(amount > 0) THEN Fail(st)
             ELSE IF ~(amount <= st.balance_1) THEN Fail(st)
             ELSE Approve(burn_asset1_decrement(st, amount),
                          [NoOut EXCEPT !.sent1 = amount,
                                        !.lp_in = lp_asset_amount])

\* on_burn_asset1_out at group index i
on_burn_asset1_out(st, g, i) ==
    IF ~verify_txn_is_sending_asa_to_pool(g, i - 1, st.lp_id) THEN Fail(st)
    ELSE IF ~(Gtxn(g, i).on_completion = "NoOp" /\ Gtxn(g, i).type = "appl")
    THEN Fail(st)
    ELSE IF ~verify_txn_is_named_application_call(g, i + 1, "burn_asset2_out")
    THEN Fail(st)
    ELSE LET lp_asset_amount == Gtxn(g, i - 1).asset_amount
             amount == burn_asset1_amount(st, lp_asset_amount)
         IN  IF ~(amount > 0) THEN Fail(st)
             ELSE IF ~(amount <= st.balance_1) THEN Fail(st)
             ELSE Approve(burn_asset1_decrement(st, amount),
                          [NoOut EXCEPT !.sent1 = amount,
                                        !.lp_in = lp_asset_amount])

\* on_burn_asset2_out at group index i
on_burn_asset2_out(st, g, i) ==
    IF ~verify_txn_is_sending_asa_to_pool(g, i - 2, st.lp_id) THEN Fail(st)
    ELSE IF ~verify_txn_is_named_application_call(g, i - 1, "burn_asset1_out")
    THEN Fail(st)
    ELSE IF ~(Gtxn(g, i).on_completion = "NoOp" /\ Gtxn(g, i).type = "appl")
    THEN Fail(st)
    ELSE LET lp_asset_amount == Gtxn(g, i - 2).asset_amount
             amount == burn_asset2_amount(st, lp_asset_amount)
         IN  IF ~(amount > 0) THEN Fail(st)
             ELSE IF ~(amount <= st.balance_2) THEN Fail(st)
             ELSE IF ~(lp_asset_amount <= st.lp_circulation) THEN Fail(st)
             ELSE Approve(burn_asset2_decrement(st, amount, lp_asset_amount),
                          [NoOut EXCEPT !.sent2 = amount,
                                        !.lp_in = lp_asset_amount])

(***************************************************************************)
(* swap                                                                    *)
(***************************************************************************)
\* save_latest_cumsum_time_weighted_price fails: the time difference
\* underflows, or a price is computed or used with a zero divisor.  (The
\* accumulators themselves are not part of the modelled state.)
time_weighted_price_fails(st, time) ==
    \/ time < st.latest_time
    \/ st.balance_1 = 0
    \/ st.balance_2 = 0
    \/ WideRatio(st.balance_2, FIXED_9_SCALE_FACTOR, st.balance_1) = 0
    \/ WideRatio(st.balance_1, FIXED_9_SCALE_FACTOR, st.balance_2) = 0

\* validate_asset_payment_txn of on_swap, on Gtxn[idx]
validate_asset_payment_txn(st, g, idx) ==
    /\ InGroup(g, idx)
    /\ IF Gtxn(g, idx).type = "pay"
       THEN /\ st.asset1_id = ALGO_ASSET_ID
            /\ verify_txn_is_sending_algos_to_pool(g, idx)
       ELSE /\ \/ Gtxn(g, idx).xfer_asset = st.asset1_id
               \/ Gtxn(g, idx).xfer_asset = st.asset2_id
            /\ verify_txn_is_sending_asa_to_pool(g, idx,
                                                 Gtxn(g, idx).xfer_asset)

swap_input_amount(t) == IF t.type = "pay" THEN t.amount ELSE t.asset_amount

swap_input_is_asset1(st, t) ==
    IF t.type = "pay" THEN TRUE ELSE t.xfer_asset = st.asset1_id

\* the fee rounded up: ceil(swap_input * swap_fee / 1e6)
swap_exact_for_fee_rounded_up(st, swap_input) ==
    MulDivQR(swap_input, st.swap_fee_pct_scaled_var, FIXED_6_SCALE_FACTOR)[1]
    + (IF MulDivQR(swap_input, st.swap_fee_pct_scaled_var,
                   FIXED_6_SCALE_FACTOR)[2] > 0 THEN 1 ELSE 0)

\* the fee without the unit added to the quotient
swap_exact_for_fee_floor(st, swap_input) ==
    WideRatio(swap_input, st.swap_fee_pct_scaled_var, FIXED_6_SCALE_FACTOR)

\* swap_fee of handle_swap_exact_for
swap_exact_for_fee(st, swap_input) ==
    WideRatio(swap_input, st.swap_fee_pct_scaled_var, FIXED_6_SCALE_FACTOR) + 1

\* swap_fee of handle_swap_for_exact; the caller has checked the divisor.
\* -1 when outside the modelled range
swap_for_exact_fee(st, required) ==
    IF FitsRatio(required, FIXED_6_SCALE_FACTOR,
                 FIXED_6_SCALE_FACTOR - st.swap_fee_pct_scaled_var)
    THEN WideRatio(required, FIXED_6_SCALE_FACTOR,
                   FIXED_6_SCALE_FACTOR - st.swap_fee_pct_scaled_var)
             + 1 - required
    ELSE -1

\* handle_swap_exact_for from the output on.  The two volumes of
\* save_latest_cumsum_volume are divisors: a zero output fails there
swap_exact_for_out(st, x, is_asset1, min, fee, out) ==
    IF out > (IF is_asset1 THEN st.balance_2 ELSE st.balance_1)
    THEN Fail(st)
    ELSE IF ~(out > 0) THEN Fail(st)
    ELSE IF ~(out >= min) THEN Fail(st)
    ELSE IF is_asset1
    THEN Approve([st EXCEPT !.balance_1 = @ + x, !.balance_2 = @ - out],
                 [NoOut EXCEPT !.in1 = x, !.sent2 = out,
                               !.fee = fee, !.fee_is_asset1 = TRUE,
                               !.swap_input_is_asset1 = TRUE])
    ELSE Approve([st EXCEPT !.balance_1 = @ - out, !.balance_2 = @ + x],
                 [NoOut EXCEPT !.in2 = x, !.sent1 = out, !.fee = fee])

\* handle_swap_exact_for from the fee on
swap_exact_for_less_fees(st, x, is_asset1, min, fee) ==
    IF fee > x THEN Fail(st)
    ELSE IF ~(x - fee > 0) THEN Fail(st)
    ELSE CHOOSE res \in
             {swap_exact_for_out(st, x, is_asset1, min, fee, out) :
                  out \in {IF is_asset1
                           THEN swap_exact_asset1_for(st, x - fee)
                           ELSE swap_exact_asset2_for(st, x - fee)}} :
             TRUE

\* handle_swap_exact_for; min_amount_to_swap_for = min
handle_swap_exact_for(st, x, is_asset1, min) ==
    CHOOSE res \in
        {swap_exact_for_less_fees(st, x, is_asset1, min, fee) :
             fee \in {swap_exact_for_fee(st, x)}} :
        TRUE

\* handle_swap_for_exact from the input check on, for the required input
\* and its fee
swap_for_exact_charge(st, x, is_asset1, exact, required, fee) ==
    IF ~(x >= required + fee) THEN Fail(st)
    ELSE IF is_asset1
    THEN Approve([st EXCEPT !.balance_1 = @ + required + fee,
                            !.balance_2 = @ - exact],
                 [NoOut EXCEPT !.in1 = required + fee,
                               !.sent2 = exact, !.fee = fee,
                               !.fee_is_asset1 = TRUE,
                               !.swap_input_is_asset1 = TRUE,
                               !.residual_amount = x - (required + fee)])
    ELSE Approve([st EXCEPT !.balance_1 = @ - exact,
                            !.balance_2 = @ + required + fee],
                 [NoOut EXCEPT !.in2 = required + fee,
                               !.sent1 = exact, !.fee = fee,
                               !.residual_amount = x - (required + fee)])

\* handle_swap_for_exact from the required input on.  A required input or
\* fee outside the modelled range exceeds every modelled input x, so the
\* input check fails
swap_for_exact_required(st, x, is_asset1, exact, required) ==
    IF ~(required > 0) THEN Fail(st)
    ELSE IF st.swap_fee_pct_scaled_var >= FIXED_6_SCALE_FACTOR THEN Fail(st)
    ELSE CHOOSE res \in
             {IF fee < 0 THEN Fail(st)
              ELSE swap_for_exact_charge(st, x, is_asset1, exact, required,
                                         fee) :
                  fee \in {swap_for_exact_fee(st, required)}} :
             TRUE

\* handle_swap_for_exact; exact_amount_to_swap_for = exact
handle_swap_for_exact(st, x, is_asset1, exact) ==
    IF ~(exact > 0) THEN Fail(st)
    ELSE IF exact >= (IF is_asset1 THEN st.balance_2 ELSE st.balance_1)
    THEN Fail(st)
    ELSE CHOOSE res \in
             {swap_for_exact_required(st, x, is_asset1, exact, required) :
                  required \in
                      {IF is_asset1
                       THEN swap_for_exact_asset2_amount(st, exact)
                       ELSE swap_for_exact_asset1_amount(st, exact)}} :
             TRUE

\* the tail of on_swap: move the protocol fee to the reserves, validate
swap_finish(handled) ==
    CHOOSE res \in
        {IF ~r.ok THEN r
         ELSE IF ~update_reserves_ok(r.st, r.o.fee_is_asset1, r.o.fee)
         THEN Fail(r.st)
         ELSE IF ~validate_asset_ratio(
                      update_reserves(r.st, r.o.fee_is_asset1, r.o.fee))
         THEN Fail(r.st)
         ELSE Approve(
                  update_reserves(r.st, r.o.fee_is_asset1, r.o.fee),
                  [r.o EXCEPT
                      !.to_reserve = fee_to_reserve(r.st, r.o.fee)]) :
             r \in {handled}} :
        TRUE

\* on_swap at group index i; arg1 is the minimum output (swap_exact_for) or
\* the exact output (swap_for_exact)
on_swap(st, g, i, mgr, time) ==
    IF time_weighted_price_fails(st, time) THEN Fail(st)
    ELSE IF ~manager_value_ok(mgr, mgr.reserve_factor) THEN Fail(st)
    ELSE IF ~validate_asset_payment_txn(st, g, i - 1) THEN Fail(st)
    ELSE IF ~(Gtxn(g, i).on_completion = "NoOp" /\ Gtxn(g, i).type = "appl")
    THEN Fail(st)
    ELSE IF Gtxn(g, i).arg0 = "swap_for_exact"
            /\ ~verify_txn_is_named_application_call(
                    g, i + 1, "redeem_swap_residual")
    THEN Fail(st)
    ELSE CHOOSE res \in
             {swap_finish(
                  IF Gtxn(g, i).arg0 = "swap_for_exact"
                  THEN handle_swap_for_exact(
                           st1, swap_input_amount(Gtxn(g, i - 1)),
                           swap_input_is_asset1(st, Gtxn(g, i - 1)),
                           Gtxn(g, i).arg1)
                  ELSE handle_swap_exact_for(
                           st1, swap_input_amount(Gtxn(g, i - 1)),
                           swap_input_is_asset1(st, Gtxn(g, i - 1)),
                           Gtxn(g, i).arg1)) :
                  st1 \in {[update_reserve_factor(st, mgr)
                               EXCEPT !.latest_time = time]}} :
             TRUE

(***************************************************************************)
(* The stable pool's swap (src/algofi/amm/stable_pool.py): on_swap with the *)
(* four quotes overridden                                                  *)
(***************************************************************************)
\* what the solver returned as an integer: -1 where it failed, ModelLimit
\* where the value exceeds every modelled amount
solver_output(o) ==
    IF o.status # "returned" THEN -1
    ELSE IF ~BigLess(o.ret, BigOf(ModelLimit)) THEN ModelLimit
    ELSE BigValue(o.ret)

\* swap_exact_asset1_for of the stable pool; the subtraction fails at 0, and
\* a failure is a value below 0
stable_swap_exact_asset1_for(st, asset1_amount, amplification_factor) ==
    solver_output(
        compute_other_asset_output_stable_swap(
            BigOf(st.balance_1 + asset1_amount), BigOf(st.balance_1),
            BigOf(st.balance_2), amplification_factor)) - 1

stable_swap_exact_asset2_for(st, asset2_amount, amplification_factor) ==
    solver_output(
        compute_other_asset_output_stable_swap(
            BigOf(st.balance_2 + asset2_amount), BigOf(st.balance_2),
            BigOf(st.balance_1), amplification_factor)) - 1

\* swap_for_exact_asset1_amount of the stable pool, for asset1_amount <=
\* balance_1; a failure is the value 0
stable_swap_for_exact_asset1_amount(st, asset1_amount, amplification_factor) ==
    solver_output(
        compute_other_asset_output_stable_swap(
            BigOf(st.balance_1 - asset1_amount), BigOf(st.balance_1),
            BigOf(st.balance_2), amplification_factor)) + 1

stable_swap_for_exact_asset2_amount(st, asset2_amount, amplification_factor) ==
    solver_output(
        compute_other_asset_output_stable_swap(
            BigOf(st.balance_2 - asset2_amount), BigOf(st.balance_2),
            BigOf(st.balance_1), amplification_factor)) + 1

\* handle_swap_exact_for with the stable pool's quotes
stable_handle_swap_exact_for(st, x, is_asset1, min, amplification_factor) ==
    IF swap_exact_for_fee(st, x) > x THEN Fail(st)
    ELSE IF ~(x - swap_exact_for_fee(st, x) > 0) THEN Fail(st)
    ELSE IF amplification_factor < 0 THEN Fail(st)
    ELSE CHOOSE res \in
             {swap_exact_for_out(st, x, is_asset1, min,
                                 swap_exact_for_fee(st, x), out) :
                  out \in
                      {IF is_asset1
                       THEN stable_swap_exact_asset1_for(
                                st, x - swap_exact_for_fee(st, x),
                                amplification_factor)
                       ELSE stable_swap_exact_asset2_for(
                                st, x - swap_exact_for_fee(st, x),
                                amplification_factor)}} :
             TRUE

\* handle_swap_for_exact with the stable pool's quotes
stable_handle_swap_for_exact(st, x, is_asset1, exact, amplification_factor) ==
    IF ~(exact > 0) THEN Fail(st)
    ELSE IF exact > (IF is_asset1 THEN st.balance_2 ELSE st.balance_1)
    THEN Fail(st)
    ELSE IF amplification_factor < 0 THEN Fail(st)
    ELSE CHOOSE res \in
             {swap_for_exact_required(st, x, is_asset1, exact, required) :
                  required \in
                      {IF is_asset1
                       THEN stable_swap_for_exact_asset2_amount(
                                st, exact, amplification_factor)
                       ELSE stable_swap_for_exact_asset1_amount(
                                st, exact, amplification_factor)}} :
             TRUE

\* on_swap of the stable pool at group index i
stable_on_swap(st, g, i, mgr, time) ==
    IF time_weighted_price_fails(st, time) THEN Fail(st)
    ELSE IF ~manager_value_ok(mgr, mgr.reserve_factor) THEN Fail(st)
    ELSE IF ~validate_asset_payment_txn(st, g, i - 1) THEN Fail(st)
    ELSE IF ~(Gtxn(g, i).on_completion = "NoOp" /\ Gtxn(g, i).type = "appl")
    THEN Fail(st)
    ELSE IF Gtxn(g, i).arg0 = "swap_for_exact"
            /\ ~verify_txn_is_named_application_call(
                    g, i + 1, "redeem_swap_residual")
    THEN Fail(st)
    ELSE CHOOSE res \in
             {swap_finish(
                  IF Gtxn(g, i).arg0 = "swap_for_exact"
                  THEN stable_handle_swap_for_exact(
                           st1, swap_input_amount(Gtxn(g, i - 1)),
                           swap_input_is_asset1(st, Gtxn(g, i - 1)),
                           Gtxn(g, i).arg1,
                           get_amplification_factor(st, time))
                  ELSE stable_handle_swap_exact_for(
                           st1, swap_input_amount(Gtxn(g, i - 1)),
                           swap_input_is_asset1(st, Gtxn(g, i - 1)),
                           Gtxn(g, i).arg1,
                           get_amplification_factor(st, time))) :
                  st1 \in {[update_reserve_factor(st, mgr)
                               EXCEPT !.latest_time = time]}} :
             TRUE

(***************************************************************************)
(* redeem residual                                                         *)
(***************************************************************************)
\* redeem_residual at group index i: the source call is Gtxn[src], whose
\* scratch values are scr[src + 1]
\* redeem_residual without the validation of the residual source
redeem_residual_any_source(st, g, i, src, source_action, is_asset1, amount) ==
    IF ~(Gtxn(g, i).on_completion = "NoOp" /\ Gtxn(g, i).type = "appl")
    THEN Fail(st)
    ELSE Approve(st, [NoOut EXCEPT
                         !.sent1 = IF is_asset1 THEN amount ELSE 0,
                         !.sent2 = IF is_asset1 THEN 0 ELSE amount])

redeem_residual(st, g, i, src, source_action, is_asset1, amount) ==
    IF ~(Gtxn(g, i).on_completion = "NoOp" /\ Gtxn(g, i).type = "appl")
    THEN Fail(st)
    ELSE IF ~verify_txn_is_named_application_call(g, src, source_action)
    THEN Fail(st)
    ELSE Approve(st, [NoOut EXCEPT
                         !.sent1 = IF is_asset1 THEN amount ELSE 0,
                         !.sent2 = IF is_asset1 THEN 0 ELSE amount])

\* ImportScratchValue(src, slot): the values Gtxn[src] left, NoOut when
\* Gtxn[src] does not exist (the import then fails after the validation did)
ImportScratch(scr, src) ==
    IF src >= 0 /\ src < Len(scr) THEN scr[src + 1] ELSE NoOut

on_redeem_pool_asset1_residual(st, g, i, scr) ==
    redeem_residual(st, g, i, i - 1, "pool", TRUE,
                    ImportScratch(scr, i - 1).pool_asset1_residual)

on_redeem_pool_asset2_residual(st, g, i, scr) ==
    redeem_residual(st, g, i, i - 2, "pool", FALSE,
                    ImportScratch(scr, i - 2).pool_asset2_residual)

on_redeem_swap_residual(st, g, i, scr) ==
    redeem_residual(st, g, i, i - 1, "swap_for_exact",
                    ImportScratch(scr, i - 1).swap_input_is_asset1,
                    ImportScratch(scr, i - 1).residual_amount)

(***************************************************************************)
(* flash loan                                                              *)
(***************************************************************************)
\* the fee without the unit added to the quotient
flash_loan_fee_floor(st, flash_loan_amount) ==
    WideRatio(flash_loan_amount, st.flash_loan_fee, FIXED_6_SCALE_FACTOR)

\* flash_loan_fee of on_flash_loan, from the fee rate loaded from the manager
flash_loan_fee(st, flash_loan_amount) ==
    WideRatio(flash_loan_amount, st.flash_loan_fee, FIXED_6_SCALE_FACTOR) + 1

max_asset1_flash_loan(st) ==
    WideRatio(st.balance_1, st.max_flash_loan_ratio, FIXED_6_SCALE_FACTOR)

max_asset2_flash_loan(st) ==
    WideRatio(st.balance_2, st.max_flash_loan_ratio, FIXED_6_SCALE_FACTOR)

\* validate_flash_loan_txn at any index of the group
validate_flash_loan_txn_any_index(st, g, i) ==
    /\ Gtxn(g, i).on_completion = "NoOp"
    /\ Gtxn(g, i).type = "appl"
    /\ \/ Gtxn(g, i).arg1 = st.asset1_id
       \/ Gtxn(g, i).arg1 = st.asset2_id
    /\ Gtxn(g, i).arg2 > 0
    /\ IF Gtxn(g, i).arg1 = st.asset1_id
       THEN Gtxn(g, i).arg2 <= max_asset1_flash_loan(st)
       ELSE Gtxn(g, i).arg2 <= max_asset2_flash_loan(st)

\* flash_loan_asset_id = arg1, flash_loan_amount = arg2
validate_flash_loan_txn(st, g, i) ==
    /\ Gtxn(g, i).on_completion = "NoOp"
    /\ Gtxn(g, i).type = "appl"
    /\ i = FLASH_LOAN_IDX
    /\ \/ Gtxn(g, i).arg1 = st.asset1_id
       \/ Gtxn(g, i).arg1 = st.asset2_id
    /\ Gtxn(g, i).arg2 > 0
    /\ IF Gtxn(g, i).arg1 = st.asset1_id
       THEN Gtxn(g, i).arg2 <= max_asset1_flash_loan(st)
       ELSE Gtxn(g, i).arg2 <= max_asset2_flash_loan(st)

\* the repayment looked for at the second transaction of the group
FLASH_LOAN_REPAY_IDX_second(g) == 1

\* FLASH_LOAN_REPAY_IDX = Global.group_size() - 1
FLASH_LOAN_REPAY_IDX(g) == Len(g) - 1

validate_flash_loan_repay_txn(st, g, i) ==
    IF Gtxn(g, i).arg1 = ALGO_ASSET_ID
    THEN /\ verify_txn_is_sending_algos_to_pool(g, FLASH_LOAN_REPAY_IDX(g))
         /\ Gtxn(g, FLASH_LOAN_REPAY_IDX(g)).amount
                = Gtxn(g, i).arg2 + flash_loan_fee(st, Gtxn(g, i).arg2)
    ELSE /\ verify_txn_is_sending_asa_to_pool(g, FLASH_LOAN_REPAY_IDX(g),
                                              Gtxn(g, i).arg1)
         /\ Gtxn(g, FLASH_LOAN_REPAY_IDX(g)).asset_amount
                = Gtxn(g, i).arg2 + flash_loan_fee(st, Gtxn(g, i).arg2)

\* update_balances that moves the reserve's part without crediting the fee
flash_loan_update_balances_no_credit(st, is_asset1, fee) ==
    update_reserves(st, is_asset1, fee)

\* update_balances of on_flash_loan: credit the fee, then update_reserves
flash_loan_update_balances(st, is_asset1, fee) ==
    update_reserves(
        IF is_asset1
        THEN [st EXCEPT !.balance_1 = @ + fee]
        ELSE [st EXCEPT !.balance_2 = @ + fee],
        is_asset1, fee)

\* on_flash_loan once the manager's values are loaded into st1
flash_loan_loaded(st, st1, g, i, is1) ==
    IF ~validate_flash_loan_txn(st1, g, i) THEN Fail(st)
    ELSE IF ~validate_flash_loan_repay_txn(st1, g, i) THEN Fail(st)
    ELSE LET fee == flash_loan_fee(st1, Gtxn(g, i).arg2)
         IN  IF ~validate_asset_ratio(
                     flash_loan_update_balances(st1, is1, fee))
             THEN Fail(st)
             ELSE Approve(
                      flash_loan_update_balances(st1, is1, fee),
                      [NoOut EXCEPT
                          !.sent1 = IF is1 THEN Gtxn(g, i).arg2 ELSE 0,
                          !.sent2 = IF is1 THEN 0 ELSE Gtxn(g, i).arg2,
                          !.fee = fee, !.fee_is_asset1 = is1,
                          !.to_reserve = fee_to_reserve(st1, fee)])

\* on_flash_loan at group index i
on_flash_loan(st, g, i, mgr) ==
    IF ~(/\ manager_value_ok(mgr, mgr.reserve_factor)
         /\ manager_value_ok(mgr, mgr.flash_loan_fee)
         /\ manager_value_ok(mgr, mgr.max_flash_loan_ratio))
    THEN Fail(st)
    ELSE CHOOSE res \in
             {flash_loan_loaded(st, st1, g, i,
                                Gtxn(g, i).arg1 = st.asset1_id) :
                  st1 \in {update_max_flash_loan_ratio(
                               update_flash_loan_fee(
                                   update_reserve_factor(st, mgr), mgr),
                               mgr)}} :
             TRUE

(***************************************************************************)
(* approval program                                                        *)
(***************************************************************************)
\* Cond(*_admin_fns_list()): no matching branch fails the program
admin_fns(st, txn, time) ==
    IF txn.arg0 = "remove_reserves" THEN on_remove_reserves(st, txn)
    ELSE IF txn.arg0 = "update_swap_fee"
    THEN on_update_swap_fee(st, txn, time)
    ELSE IF txn.arg0 = "schedule_swap_fee_update"
    THEN on_schedule_swap_fee_update(st, txn, time)
    ELSE IF txn.arg0 = "increase_param_update_delay"
    THEN on_increase_param_delay(st, txn)
    ELSE Fail(st)

\* AlgofiAMMStablePool._admin_fns_list: the pool's list, then the ramp
stable_admin_fns(st, txn, time) ==
    IF txn.arg0 \in {"remove_reserves", "update_swap_fee",
                     "schedule_swap_fee_update",
                     "increase_param_update_delay"}
    THEN admin_fns(st, txn, time)
    ELSE IF txn.arg0 = "ramp_amplification_factor"
    THEN on_ramp_amplification_factor(st, txn, time)
    ELSE Fail(st)

\* the calls whose quotes the stable pool overrides with
\* compute_other_asset_output_stable_swap
StableOverridden == {"swap_exact_for", "swap_for_exact"}

user_fns(st, g, i, scr, mgr, time) ==
    IF Gtxn(g, i).arg0 = "pool" THEN on_pool(st, g, i, time)
    ELSE IF Gtxn(g, i).arg0 = "redeem_pool_asset1_residual"
    THEN on_redeem_pool_asset1_residual(st, g, i, scr)
    ELSE IF Gtxn(g, i).arg0 = "redeem_pool_asset2_residual"
    THEN on_redeem_pool_asset2_residual(st, g, i, scr)
    ELSE IF Gtxn(g, i).arg0 = "burn_asset1_out"
    THEN on_burn_asset1_out(st, g, i)
    ELSE IF Gtxn(g, i).arg0 = "burn_asset2_out"
    THEN on_burn_asset2_out(st, g, i)
    ELSE IF Gtxn(g, i).arg0 \in {"swap_for_exact", "swap_exact_for"}
    THEN on_swap(st, g, i, mgr, time)
    ELSE IF Gtxn(g, i).arg0 = "redeem_swap_residual"
    THEN on_redeem_swap_residual(st, g, i, scr)
    ELSE IF Gtxn(g, i).arg0 = "flash_loan"
    THEN on_flash_loan(st, g, i, mgr)
    ELSE Fail(st)

\* approval_program that does not look at initialized before it hands a
\* call to the admin or the user functions
approval_program_any_state(st, g, i, scr, mgr, time) ==
    IF Gtxn(g, i).on_completion
           \in {"DeleteApplication", "OptIn", "CloseOut"}
    THEN Fail(st)
    ELSE IF Gtxn(g, i).arg0 = "initialize_pool"
    THEN on_initialize_pool(st, Gtxn(g, i), mgr, time)
    ELSE IF Gtxn(g, i).sender = st.admin
    THEN IF st.stable THEN stable_admin_fns(st, Gtxn(g, i), time)
         ELSE admin_fns(st, Gtxn(g, i), time)
    ELSE IF st.stable /\ Gtxn(g, i).arg0 \in StableOverridden
    THEN NotModelled(st)
    ELSE user_fns(st, g, i, scr, mgr, time)

\* approval_program that takes the sender of every call to be the admin
approval_program_any_sender(st, g, i, scr, mgr, time) ==
    IF Gtxn(g, i).on_completion
           \in {"DeleteApplication", "OptIn", "CloseOut"}
    THEN Fail(st)
    ELSE IF st.initialized
    THEN IF st.stable
         THEN stable_admin_fns(st, [Gtxn(g, i) EXCEPT !.sender = st.admin],
                               time)
         ELSE admin_fns(st, [Gtxn(g, i) EXCEPT !.sender = st.admin], time)
    ELSE IF Gtxn(g, i).arg0 = "initialize_pool"
    THEN on_initialize_pool(st, Gtxn(g, i), mgr, time)
    ELSE Fail(st)

\* approval_program for the application call Gtxn[i] of an existing pool
\* (the creation branch, application_id = 0, has run before Init)
approval_program(st, g, i, scr, mgr, time) ==
    IF Gtxn(g, i).on_completion
           \in {"DeleteApplication", "OptIn", "CloseOut"}
    THEN Fail(st)
    ELSE IF st.initialized
    THEN IF Gtxn(g, i).sender = st.admin
         THEN IF st.stable THEN stable_admin_fns(st, Gtxn(g, i), time)
              ELSE admin_fns(st, Gtxn(g, i), time)
         ELSE IF ~(Gtxn(g, i).on_completion = "NoOp"
                   /\ Gtxn(g, i).type = "appl")
         THEN Fail(st)
         ELSE IF st.stable /\ Gtxn(g, i).arg0 \in StableOverridden
         THEN NotModelled(st)
         ELSE user_fns(st, g, i, scr, mgr, time)
    ELSE IF Gtxn(g, i).arg0 = "initialize_pool"
    THEN on_initialize_pool(st, Gtxn(g, i), mgr, time)
    ELSE Fail(st)

(***************************************************************************)
(* A transaction group: the transactions run in order; the group commits   *)
(* only if every pool call approves.  Transfers are taken to be funded.    *)
(***************************************************************************)
\* the record of Gtxn[i] in a run: state before and after it, what it did
Step(st, res) == [pre |-> st, post |-> res.st, o |-> res.o]

ScratchOf(calls) == [k \in 1..Len(calls) |-> calls[k].o]

\* run Gtxn[i], Gtxn[i + 1], ... from state st; calls holds the records of
\* Gtxn[0] .. Gtxn[i - 1]
RECURSIVE RunFrom(_, _, _, _, _, _)
RunFrom(st, g, i, calls, mgr, time) ==
    IF i = Len(g)
    THEN [ok |-> TRUE, modelled |-> TRUE, st |-> st, calls |-> calls]
    ELSE IF Gtxn(g, i).type = "appl" /\ Gtxn(g, i).application_id = "pool"
    THEN CHOOSE run \in
             {IF res.ok
              THEN RunFrom(res.st, g, i + 1, Append(calls, Step(st, res)),
                           mgr, time)
              ELSE [ok |-> FALSE, modelled |-> res.modelled, st |-> st,
                    calls |-> calls] :
                  res \in {approval_program(st, g, i, ScratchOf(calls),
                                            mgr, time)}} :
             TRUE
    ELSE RunFrom(st, g, i + 1, Append(calls, Step(st, Approve(st, NoOut))),
                 mgr, time)

RunGroup(st, g, mgr, time) == RunFrom(st, g, 0, <<>>, mgr, time)

(***************************************************************************)
(* The manager's admin functions (src/algofi/amm/manager.py)               *)
(***************************************************************************)
on_set_reserve_factor(mgr, sender, new_reserve_factor) ==
    IF sender = "admin" /\ new_reserve_factor <= FIXED_6_SCALE_FACTOR
    THEN [mgr EXCEPT !.reserve_factor = new_reserve_factor]
    ELSE mgr

on_set_flash_loan_fee(mgr, sender, new_flash_loan_fee) ==
    IF sender = "admin" /\ new_flash_loan_fee <= FIXED_6_SCALE_FACTOR
    THEN [mgr EXCEPT !.flash_loan_fee = new_flash_loan_fee]
    ELSE mgr

on_set_max_flash_loan_ratio(mgr, sender, new_max_flash_loan_ratio) ==
    IF sender = "admin" /\ new_max_flash_loan_ratio <= FIXED_6_SCALE_FACTOR
    THEN [mgr EXCEPT !.max_flash_loan_ratio = new_max_flash_loan_ratio]
    ELSE mgr

(***************************************************************************)
(* Inputs                                                                  *)
(***************************************************************************)
Senders == {"user", "admin"}

\* asset1 of the pool: ALGO or an ASA
Asset1Ids == {ALGO_ASSET_ID, 5}

\* <<asset1 amount, asset2 amount, slippage scaled by 1e6>> of a deposit
DepositInputs ==
    {<<1000000, 1000000, 10000>>, <<1000, 2000, 10000>>,
     <<2000, 3000, 10000>>, <<2000, 3000, 1000000>>, <<999, 5000, 10000>>}

\* <<input is asset1, input amount, minimum output>> of swap_exact_for
SwapExactForInputs ==
    {<<TRUE, 1003, 0>>, <<FALSE, 1003, 0>>, <<TRUE, 50000, 0>>,
     <<TRUE, 50000, 100000>>, <<FALSE, 2, 0>>}

\* <<input is asset1, input amount, exact output>> of swap_for_exact
SwapForExactInputs ==
    {<<TRUE, 1003, 500>>, <<FALSE, 1003, 500>>, <<TRUE, 50000, 500>>,
     <<FALSE, 2, 500>>, <<TRUE, 1003, 0>>}

\* <<loan is asset1, loan amount, repayment is asset1, repayment minus the
\*   loan and minus floor(loan * fee rate / 1e6)>> of a flash loan
FlashLoanInputs ==
    {<<TRUE, 100, TRUE, 1>>, <<FALSE, 100, FALSE, 1>>,
     <<TRUE, 1000, TRUE, 1>>, <<TRUE, 1000, TRUE, 0>>,
     <<TRUE, 100000, TRUE, 1>>, <<FALSE, 100000, FALSE, 0>>,
     <<TRUE, 100000, FALSE, 1>>, <<TRUE, 100001, TRUE, 1>>,
     <<FALSE, 0, FALSE, 1>>}

\* the LP burned is lp_circulation divided by one of these
BurnInputs == {1, 2, 1000}

\* values the manager admin sets (the last one is above the scale)
ManagerValues == {1000000, 1000001}

\* <<update_time minus now, new_fee>> of a schedule_swap_fee_update
ScheduleInputs ==
    {<<5, 30000>>, <<4, 30000>>, <<10, 5000>>, <<5, 0>>, <<5, 1000000>>}

\* delays the pool admin asks for
ParamDelays == {7, 3}

\* amplification factor a stable pool is created with
AmplificationFactors == {100}

\* <<future_A, future_time minus now>> of a ramp_amplification_factor
RampInputs ==
    {<<200, 5>>, <<50, 10>>, <<200, 4>>, <<0, 5>>, <<400000000, 5>>}

\* the transfer of amt of asset1 (is_asset1) or asset2 to the pool escrow
AssetIn(st, is_asset1, amt) ==
    IF ~is_asset1 THEN AssetTransfer("user", st.asset2_id, "pool", amt)
    ELSE IF st.asset1_id = ALGO_ASSET_ID THEN Payment("user", "pool", amt)
    ELSE AssetTransfer("user", st.asset1_id, "pool", amt)

Call(sender, name, a1, a2) == ApplicationCall(sender, "NoOp", name, a1, a2)

DepositGroup(st, a1, a2, slippage) ==
    <<AssetIn(st, TRUE, a1), AssetIn(st, FALSE, a2),
      Call("user", "pool", slippage, 0),
      Call("user", "redeem_pool_asset1_residual", 0, 0),
      Call("user", "redeem_pool_asset2_residual", 0, 0)>>

BurnGroup(st, lp) ==
    <<AssetTransfer("user", st.lp_id, "pool", lp),
      Call("user", "burn_asset1_out", 0, 0),
      Call("user", "burn_asset2_out", 0, 0)>>

SwapExactForGroup(st, is_asset1, x, min) ==
    <<AssetIn(st, is_asset1, x), Call("user", "swap_exact_for", min, 0)>>

SwapForExactGroup(st, is_asset1, x, exact) ==
    <<AssetIn(st, is_asset1, x), Call("user", "swap_for_exact", exact, 0),
      Call("user", "redeem_swap_residual", 0, 0)>>

\* a flash loan of amount of the asset and, as the last transaction, a
\* transfer of repay of repay_asset1's asset to the pool escrow
FlashLoanGroup(st, is_asset1, amount, repay_asset1, repay) ==
    <<Call("user", "flash_loan",
           IF is_asset1 THEN st.asset1_id ELSE st.asset2_id, amount),
      AssetIn(st, repay_asset1, repay)>>

(***************************************************************************)
(* Specification                                                           *)
(***************************************************************************)
NoGroup == [group |-> <<>>, ok |-> TRUE, calls |-> <<>>, time |-> 0]

\* no deposit at full width is under way
NoCalc ==
    [a1 |-> <<>>, a2 |-> <<>>, done |-> FALSE, ok |-> FALSE,
     lp_issued |-> <<>>, balance_1 |-> <<>>, balance_2 |-> <<>>]

Init ==
    /\ \E a1 \in Asset1Ids : pool = CreatedPool(a1)
    /\ manager = [exists |-> TRUE,
                  reserve_factor |-> DEFAULT_RESERVE_FACTOR,
                  flash_loan_fee |-> INIT_FLASH_LOAN_FEE,
                  max_flash_loan_ratio |-> INIT_MAX_FLASH_LOAN_RATIO]
    /\ now = 1
    /\ last = NoGroup
    /\ sched = [time |-> 0, delay |-> 0, fee |-> 0]
    /\ nops = 0
    /\ nadm = 0
    /\ nmgr = 0
    /\ calc = NoCalc

\* the group g is submitted at time now.  A rejected group changes nothing,
\* so the behaviours that go on after one visit the pool states of the
\* behaviours without it: a behaviour is followed up to its first rejected
\* group
Submit(g) ==
    /\ last.ok
    /\ \E r \in {RunGroup(pool, g, manager, now)} :
        /\ r.modelled
        /\ pool' = IF r.ok THEN r.st ELSE pool
        /\ last' = [group |-> g, ok |-> r.ok, calls |-> r.calls,
                    time |-> now]

\* a group that holds one call of the pool admin
SubmitAdmin(txn) ==
    /\ nadm < MaxAdminOps
    /\ Submit(<<txn>>)
    /\ nadm' = nadm + 1
    /\ UNCHANGED <<manager, now, nops, nmgr, calc>>

\* a group that holds a balance-changing call
SubmitOp(g) ==
    /\ nops < MaxOps
    /\ Submit(g)
    /\ nops' = nops + 1
    /\ UNCHANGED <<manager, now, sched, nadm, nmgr, calc>>

InitializePool ==
    \E sender \in Senders :
        /\ Submit(<<Call(sender, "initialize_pool", 0, 0)>>)
        /\ UNCHANGED <<manager, now, sched, nops, nadm, nmgr, calc>>

Deposit(inputs) ==
    \E a \in inputs :
        SubmitOp(DepositGroup(pool, a[1], a[2], a[3]))

\* the LP burned is lp_circulation divided by d
Burn(inputs) ==
    \E d \in inputs :
        SubmitOp(BurnGroup(pool, pool.lp_circulation \div d))

\* a burn of lp LP tokens
BurnAmount(amounts) ==
    \E lp \in amounts :
        SubmitOp(BurnGroup(pool, lp))

\* burn groups in other shapes: a burn call without its pair, the pair in
\* the other order, a transfer of another asset before the pair, and the
\* pair at indexes 2 and 3 after two LP transfers
BurnOtherShapes(amounts) ==
    \E lp \in amounts :
        \/ SubmitOp(<<AssetTransfer("user", pool.lp_id, "pool", lp),
                      Call("user", "burn_asset1_out", 0, 0)>>)
        \/ SubmitOp(<<AssetTransfer("user", pool.lp_id, "pool", lp),
                      Call("user", "burn_asset2_out", 0, 0)>>)
        \/ SubmitOp(<<AssetTransfer("user", pool.lp_id, "pool", lp),
                      Call("user", "burn_asset2_out", 0, 0),
                      Call("user", "burn_asset1_out", 0, 0)>>)
        \/ SubmitOp(<<AssetTransfer("user", pool.asset2_id, "pool", lp),
                      Call("user", "burn_asset1_out", 0, 0),
                      Call("user", "burn_asset2_out", 0, 0)>>)
        \/ SubmitOp(<<AssetTransfer("user", pool.lp_id, "pool", lp + 1)>>
                    \o BurnGroup(pool, lp))

SwapExactFor(inputs) ==
    \E a \in inputs :
        SubmitOp(SwapExactForGroup(pool, a[1], a[2], a[3]))

SwapForExact(inputs) ==
    \E a \in inputs :
        SubmitOp(SwapForExactGroup(pool, a[1], a[2], a[3]))

FlashLoanRepayment(amount, extra) ==
    amount + WideRatio(amount, manager.flash_loan_fee, FIXED_6_SCALE_FACTOR)
    + extra

FlashLoan(inputs) ==
    \E a \in inputs :
        SubmitOp(FlashLoanGroup(pool, a[1], a[2], a[3],
                                FlashLoanRepayment(a[2], a[4])))

\* a flash loan that is not the first transaction of its group
FlashLoanNotFirst ==
    \E a \in FlashLoanInputs :
        /\ a[1] = a[3] /\ a[4] = 1
        /\ SubmitOp(<<Payment("user", "other", 1)>>
                    \o FlashLoanGroup(pool, a[1], a[2], a[3],
                                      FlashLoanRepayment(a[2], a[4])))

\* a flash loan of the pool's LP asset, repaid in it
FlashLoanOtherAsset ==
    SubmitOp(<<Call("user", "flash_loan", pool.lp_id, 100),
               AssetTransfer("user", pool.lp_id, "pool",
                             FlashLoanRepayment(100, 1))>>)

RemoveReserves ==
    \E sender \in Senders :
        /\ SubmitAdmin(Call(sender, "remove_reserves", 0, 0))
        /\ UNCHANGED sched

UpdateSwapFee ==
    \E sender \in Senders :
        /\ SubmitAdmin(Call(sender, "update_swap_fee", 0, 0))
        /\ UNCHANGED sched

ScheduleSwapFeeUpdate ==
    \E sender \in Senders, a \in ScheduleInputs :
        /\ SubmitAdmin(Call(sender, "schedule_swap_fee_update",
                            now + a[1], a[2]))
        /\ sched' = IF last'.ok
                    THEN [time |-> now, delay |-> pool.param_update_delay,
                          fee |-> a[2]]
                    ELSE sched

IncreaseParamDelay ==
    \E sender \in Senders, delay \in ParamDelays :
        /\ SubmitAdmin(Call(sender, "increase_param_update_delay", delay, 0))
        /\ UNCHANGED sched

RampAmplificationFactor ==
    \E sender \in Senders, a \in RampInputs :
        /\ SubmitAdmin(Call(sender, "ramp_amplification_factor",
                            a[1], now + a[2]))
        /\ UNCHANGED sched

SetManagerValue ==
    /\ last.ok
    /\ nmgr < MaxManagerOps
    /\ \E sender \in Senders, v \in ManagerValues :
        \/ manager' = on_set_reserve_factor(manager, sender, v)
        \/ manager' = on_set_flash_loan_fee(manager, sender, v)
        \/ manager' = on_set_max_flash_loan_ratio(manager, sender, v)
    /\ nmgr' = nmgr + 1
    /\ UNCHANGED <<pool, now, last, sched, nops, nadm, calc>>

\* a later block: latest_timestamp advances
Tick ==
    /\ last.ok
    /\ now + DEFAULT_PARAM_UPDATE_DELAY <= MaxTime
    /\ now' = now + DEFAULT_PARAM_UPDATE_DELAY
    /\ UNCHANGED <<pool, manager, last, sched, nops, nadm, nmgr, calc>>

\* the pool under deposits, burns, swaps and flash loans
Next ==
    \/ InitializePool
    \/ Deposit(DepositInputs)
    \/ Burn(BurnInputs)
    \/ SwapExactFor(SwapExactForInputs)
    \/ SwapForExact(SwapForExactInputs)
    \/ FlashLoan(FlashLoanInputs)
    \/ FlashLoanNotFirst
    \/ FlashLoanOtherAsset
    \/ RemoveReserves
    \/ SetManagerValue
    \/ Tick

Spec == Init /\ [][Next]_vars

\* the pool under its admin's calls, with one input of each user operation
FeeNext ==
    \/ InitializePool
    \/ Deposit({<<1000000, 1000000, 10000>>})
    \/ Burn({1})
    \/ SwapExactFor({<<TRUE, 1003, 0>>})
    \/ SwapForExact({<<FALSE, 1003, 500>>})
    \/ FlashLoan({<<TRUE, 1000, TRUE, 1>>})
    \/ RemoveReserves
    \/ UpdateSwapFee
    \/ ScheduleSwapFeeUpdate
    \/ IncreaseParamDelay
    \/ Tick

FeeSpec == Init /\ [][FeeNext]_vars

\* a constant-product or a stable pool after creation
AdminInit ==
    /\ \E a1 \in Asset1Ids :
           \/ pool = CreatedPool(a1)
           \/ \E A \in AmplificationFactors : pool = CreatedStablePool(a1, A)
    /\ manager = [exists |-> TRUE,
                  reserve_factor |-> DEFAULT_RESERVE_FACTOR,
                  flash_loan_fee |-> INIT_FLASH_LOAN_FEE,
                  max_flash_loan_ratio |-> INIT_MAX_FLASH_LOAN_RATIO]
    /\ now = 1
    /\ last = NoGroup
    /\ sched = [time |-> 0, delay |-> 0, fee |-> 0]
    /\ nops = 0
    /\ nadm = 0
    /\ nmgr = 0
    /\ calc = NoCalc

\* the pool under operations of a few units on pools of (1000, 2000) and
\* (2000, 1000), where the quotes round to 0
DustNext ==
    \/ InitializePool
    \/ Deposit({<<1000, 2000, 10000>>, <<2000, 1000, 10000>>,
                <<1, 1, 1000000>>, <<2, 4, 1000000>>})
    \/ BurnAmount({1, 2})
    \/ BurnOtherShapes({2})
    \/ SwapExactFor({<<TRUE, 3, 0>>, <<FALSE, 3, 0>>, <<TRUE, 1, 0>>,
                     <<TRUE, 1003, 0>>, <<TRUE, 400, 0>>,
                     <<TRUE, 1003, 1000>>, <<TRUE, 1003, 1001>>})
    \/ SwapForExact({<<TRUE, 1003, 0>>, <<FALSE, 1003, 0>>,
                     <<TRUE, 1003, 1>>})
    \/ Tick

DustSpec == Init /\ [][DustNext]_vars

\* both pool kinds under the admin functions called by the admin and by
\* another account
AdminNext ==
    \/ FeeNext
    \/ RampAmplificationFactor

AdminSpec == AdminInit /\ [][AdminNext]_vars


(***************************************************************************)
(* A stable pool under ramps of its amplification factor, second by second *)
(***************************************************************************)
\* amplification factors the stable pool is created with
RampCreatedWith == {1, 100, 399999999}

\* <<future_A, future_time minus now>> of the admin's ramps
RampWideInputs ==
    {<<1, 5>>, <<7, 6>>, <<200, 5>>, <<200, 9>>, <<399999999, 7>>}

RampInit ==
    /\ \E A \in RampCreatedWith :
           pool = CreatedStablePool(ALGO_ASSET_ID, A)
    /\ manager = [exists |-> TRUE,
                  reserve_factor |-> DEFAULT_RESERVE_FACTOR,
                  flash_loan_fee |-> INIT_FLASH_LOAN_FEE,
                  max_flash_loan_ratio |-> INIT_MAX_FLASH_LOAN_RATIO]
    /\ now = 1
    /\ last = NoGroup
    /\ sched = [time |-> 0, delay |-> 0, fee |-> 0]
    /\ nops = 0
    /\ nadm = 0
    /\ nmgr = 0
    /\ calc = NoCalc

RampWide ==
    \E a \in RampWideInputs :
        /\ nadm < MaxRamps
        /\ SubmitAdmin(Call("admin", "ramp_amplification_factor",
                            a[1], now + a[2]))
        /\ UNCHANGED sched

\* the next block is one second later
TickOne ==
    /\ last.ok
    /\ now + 1 <= MaxTime
    /\ now' = now + 1
    /\ UNCHANGED <<pool, manager, last, sched, nops, nadm, nmgr, calc>>

RampNext ==
    \/ InitializePool
    \/ RampWide
    \/ TickOne

RampSpec == RampInit /\ [][RampNext]_vars

(***************************************************************************)
(* One liquidity provider's round: deposit, swaps by others, withdrawal    *)
(***************************************************************************)
\* <<input is asset1, input amount, minimum output>> of the swaps
RoundSwaps ==
    {<<TRUE, 1000, 0>>, <<TRUE, 1000, 996>>, <<TRUE, 1000, 997>>,
     <<FALSE, 1000, 0>>}

\* a group that holds a balance-changing call, one of at most MaxRoundOps
SubmitStep(g) ==
    /\ nops < MaxRoundOps
    /\ Submit(g)
    /\ nops' = nops + 1
    /\ UNCHANGED <<manager, now, sched, nadm, nmgr, calc>>

RoundDeposit ==
    SubmitStep(DepositGroup(pool, 1000000, 1000000, 10000))

RoundSwap ==
    \E a \in RoundSwaps :
        SubmitStep(SwapExactForGroup(pool, a[1], a[2], a[3]))

\* all of the LP in circulation, or half of it, is burned
RoundBurn ==
    \E d \in {1, 2} :
        SubmitStep(BurnGroup(pool, pool.lp_circulation \div d))

RoundNext ==
    \/ InitializePool
    \/ RoundDeposit
    \/ RoundSwap
    \/ RoundBurn
    \/ SetManagerValue

RoundSpec == Init /\ [][RoundNext]_vars

(***************************************************************************)
(* Application calls with another on-completion than NoOp                  *)
(***************************************************************************)
OtherCompletions ==
    {"DeleteApplication", "OptIn", "CloseOut", "UpdateApplication"}

\* application_args[0] of the calls sent with another on-completion
CompletionCallNames ==
    {"initialize_pool", "remove_reserves", "update_swap_fee",
     "increase_param_update_delay", "ramp_amplification_factor", "pool",
     "flash_loan", "none"}

\* <<application_args[1], application_args[2]>> of those calls
CompletionCallArgs == {<<0, 0>>, <<7, 0>>, <<200, 20>>}

\* one application call to the pool with on-completion oc
OtherCompletionCall ==
    \E sender \in Senders, oc \in OtherCompletions,
       name \in CompletionCallNames, a \in CompletionCallArgs :
        /\ SubmitAdmin(ApplicationCall(sender, oc, name, a[1], a[2]))
        /\ UNCHANGED sched

CompletionNext ==
    \/ InitializePool
    \/ OtherCompletionCall
    \/ RemoveReserves
    \/ IncreaseParamDelay
    \/ Tick

CompletionSpec == AdminInit /\ [][CompletionNext]_vars

(***************************************************************************)
(* The pool and the application at manager_app_id.  The pool reads the     *)
(* manager's values by App.globalGetEx; what that application is and does  *)
(* is outside the pool's program, so the read may find values changed or   *)
(* no value at all.                                                        *)
(***************************************************************************)
\* values found at the manager's keys (the last one is above the scale)
ManagerValuesRead == {0, 300000, 1000000, 1000001}

\* one of the manager's values is written, by whatever program runs there
ManagerValueWritten ==
    /\ last.ok
    /\ nmgr < MaxManagerOps
    /\ manager.exists
    /\ \E v \in ManagerValuesRead :
        \/ manager' = [manager EXCEPT !.reserve_factor = v]
        \/ manager' = [manager EXCEPT !.flash_loan_fee = v]
        \/ manager' = [manager EXCEPT !.max_flash_loan_ratio = v]
    /\ nmgr' = nmgr + 1
    /\ UNCHANGED <<pool, now, last, sched, nops, nadm, calc>>

\* the keys are no longer there: hasValue() is 0 from now on
ManagerValueAbsent ==
    /\ last.ok
    /\ nmgr < MaxManagerOps
    /\ manager.exists
    /\ manager' = [manager EXCEPT !.exists = FALSE]
    /\ nmgr' = nmgr + 1
    /\ UNCHANGED <<pool, now, last, sched, nops, nadm, calc>>

ManagerNext ==
    \/ InitializePool
    \/ Deposit({<<1000000, 1000000, 10000>>})
    \/ SwapExactFor({<<TRUE, 1003, 0>>, <<FALSE, 50000, 0>>})
    \/ SwapForExact({<<FALSE, 1003, 500>>})
    \/ FlashLoan({<<TRUE, 1000, TRUE, 1>>, <<FALSE, 100000, FALSE, 1>>})
    \/ ManagerValueWritten
    \/ ManagerValueAbsent

ManagerSpec == Init /\ [][ManagerNext]_vars

(***************************************************************************)
(* Deposit and redeem calls in groups of other shapes                      *)
(***************************************************************************)
RedeemAsset1 == Call("user", "redeem_pool_asset1_residual", 0, 0)
RedeemAsset2 == Call("user", "redeem_pool_asset2_residual", 0, 0)
RedeemSwap == Call("user", "redeem_swap_residual", 0, 0)

\* the deposit of (a1, a2) without a redeem call or with one, with the
\* redeem calls or the transfers in the other order, with a transfer to
\* another receiver, of amount 0 or missing, with a third redeem call, and
\* the whole group one index later
DepositOtherShapes(inputs) ==
    \E a \in inputs :
        \/ SubmitOp(<<AssetIn(pool, TRUE, a[1]), AssetIn(pool, FALSE, a[2]),
                      Call("user", "pool", a[3], 0)>>)
        \/ SubmitOp(<<AssetIn(pool, TRUE, a[1]), AssetIn(pool, FALSE, a[2]),
                      Call("user", "pool", a[3], 0), RedeemAsset1>>)
        \/ SubmitOp(<<AssetIn(pool, TRUE, a[1]), AssetIn(pool, FALSE, a[2]),
                      Call("user", "pool", a[3], 0), RedeemAsset2,
                      RedeemAsset1>>)
        \/ SubmitOp(<<AssetIn(pool, FALSE, a[2]), AssetIn(pool, TRUE, a[1]),
                      Call("user", "pool", a[3], 0), RedeemAsset1,
                      RedeemAsset2>>)
        \/ SubmitOp(<<AssetIn(pool, TRUE, a[1]),
                      AssetTransfer("user", pool.asset2_id, "other", a[2]),
                      Call("user", "pool", a[3], 0), RedeemAsset1,
                      RedeemAsset2>>)
        \/ SubmitOp(<<AssetIn(pool, TRUE, 0), AssetIn(pool, FALSE, a[2]),
                      Call("user", "pool", a[3], 0), RedeemAsset1,
                      RedeemAsset2>>)
        \/ SubmitOp(<<AssetIn(pool, FALSE, a[2]),
                      Call("user", "pool", a[3], 0), RedeemAsset1,
                      RedeemAsset2>>)
        \/ SubmitOp(DepositGroup(pool, a[1], a[2], a[3]) \o <<RedeemAsset1>>)
        \/ SubmitOp(<<Payment("user", "other", 1)>>
                    \o DepositGroup(pool, a[1], a[2], a[3]))

\* a redeem call with no other call, after a swap_exact_for, a second one
\* after a swap_for_exact, two indexes after it, and a swap_for_exact
\* without one
RedeemOtherShapes(inputs) ==
    \/ \E r \in {RedeemAsset1, RedeemAsset2, RedeemSwap} : SubmitOp(<<r>>)
    \/ \E a \in inputs :
        \/ SubmitOp(SwapExactForGroup(pool, a[1], a[2], 0) \o <<RedeemSwap>>)
        \/ SubmitOp(SwapForExactGroup(pool, a[1], a[2], a[3])
                    \o <<RedeemSwap>>)
        \/ SubmitOp(<<AssetIn(pool, a[1], a[2]),
                      Call("user", "swap_for_exact", a[3], 0),
                      Payment("user", "other", 1), RedeemSwap>>)
        \/ SubmitOp(<<AssetIn(pool, a[1], a[2]),
                      Call("user", "swap_for_exact", a[3], 0)>>)
        \/ SubmitOp(<<AssetIn(pool, a[1], a[2]),
                      Call("user", "swap_for_exact", a[3], 0),
                      RedeemAsset1>>)

GroupNext ==
    \/ InitializePool
    \/ Deposit({<<1000, 2000, 10000>>, <<2000, 3000, 1000000>>})
    \/ DepositOtherShapes({<<2000, 3000, 1000000>>})
    \/ SwapForExact({<<TRUE, 1003, 500>>})
    \/ RedeemOtherShapes({<<TRUE, 1003, 500>>})

GroupSpec == Init /\ [][GroupNext]_vars

(***************************************************************************)
(* The first deposit at full uint64 width.  The amounts of the pool above  *)
(* stay below 2^30; here calculate_lp_issuance and validate_asset_ratio    *)
(* of the empty pool run on amounts up to 2^64 - 1.                        *)
(***************************************************************************)
\* lp_issued_store of the empty pool; the division fails for adj1 = 0, which
\* the transfer's amount > 0 excludes
calculate_lp_issuance_empty(adj1, adj2) ==
    IF BigLess(adj2, BigDiv(MAX_INT_U64, adj1))
    THEN BigSqrt(BigMul(adj1, adj2))
    ELSE BigMul(BigSqrt(adj1), BigSqrt(adj2))

validate_asset_ratio_u64(balance_1, balance_2) ==
    /\ BigLeq(BigOf(MIN_POOL_BALANCE), balance_1)
    /\ BigLeq(BigOf(MIN_POOL_BALANCE), balance_2)
    /\ BigLess(BigDiv(balance_1, balance_2), BigOf(MAX_ASSET_RATIO))
    /\ BigLess(BigDiv(balance_2, balance_1), BigOf(MAX_ASSET_RATIO))

\* on_pool with the issuance lp_issued on the empty pool
pool_issued_empty(c, lp_issued) ==
    IF lp_issued = <<>> THEN [c EXCEPT !.done = TRUE]
    ELSE IF ~validate_asset_ratio_u64(c.a1, c.a2) THEN [c EXCEPT !.done = TRUE]
    ELSE [c EXCEPT !.done = TRUE, !.ok = TRUE, !.lp_issued = lp_issued,
                   !.balance_1 = c.a1, !.balance_2 = c.a2]

\* on_pool on the empty pool for transfers of c.a1 and c.a2
on_pool_empty(c) ==
    IF c.a1 = <<>> \/ c.a2 = <<>> THEN [c EXCEPT !.done = TRUE]
    ELSE pool_issued_empty(c, calculate_lp_issuance_empty(c.a1, c.a2))

\* amounts of a first deposit, around 2^32 and at the ends of the range
SeedAmounts ==
    {BigOf(999), BigOf(1000), BigTwoTo(31), BigSub(BigTwoTo(32), <<1>>),
     BigTwoTo(32), BigAdd(BigTwoTo(32), <<1>>), BigTwoTo(33),
     BigOf(1000000007), BigTwoTo(63), MAX_INT_U64}

SeedInit ==
    /\ pool = CreatedPool(ALGO_ASSET_ID)
    /\ manager = [exists |-> TRUE,
                  reserve_factor |-> DEFAULT_RESERVE_FACTOR,
                  flash_loan_fee |-> INIT_FLASH_LOAN_FEE,
                  max_flash_loan_ratio |-> INIT_MAX_FLASH_LOAN_RATIO]
    /\ now = 1
    /\ last = NoGroup
    /\ sched = [time |-> 0, delay |-> 0, fee |-> 0]
    /\ nops = 0
    /\ nadm = 0
    /\ nmgr = 0
    /\ \E a1 \in SeedAmounts, a2 \in SeedAmounts :
           calc = [NoCalc EXCEPT !.a1 = a1, !.a2 = a2]

\* the deposit of calc.a1 and calc.a2 into the empty pool
SeedDeposit ==
    /\ ~calc.done
    /\ calc' = on_pool_empty(calc)
    /\ UNCHANGED <<pool, manager, now, last, sched, nops, nadm, nmgr>>

SeedNext == SeedDeposit

SeedSpec == SeedInit /\ [][SeedNext]_vars

(***************************************************************************)
(* A stable pool under deposits, burns and a ramp of its amplification     *)
(* factor                                                                  *)
(***************************************************************************)
\* amplification factors the stable pool is created with
StableFactors == {250000, 100000000}

\* <<asset1 amount, asset2 amount, slippage>> of the deposits
StableDeposits ==
    {<<1000000, 1000000, 10000>>, <<1000000, 3000000, 10000>>,
     <<2000, 3000, 1000000>>}

\* <<future_A, future_time minus now>> of the admin's ramps
StableRamps == {<<2000000, 6>>}

StableInit ==
    /\ \E A \in StableFactors : pool = CreatedStablePool(ALGO_ASSET_ID, A)
    /\ manager = [exists |-> TRUE,
                  reserve_factor |-> DEFAULT_RESERVE_FACTOR,
                  flash_loan_fee |-> INIT_FLASH_LOAN_FEE,
                  max_flash_loan_ratio |-> INIT_MAX_FLASH_LOAN_RATIO]
    /\ now = 1
    /\ last = NoGroup
    /\ sched = [time |-> 0, delay |-> 0, fee |-> 0]
    /\ nops = 0
    /\ nadm = 0
    /\ nmgr = 0
    /\ calc = NoCalc

StableDeposit ==
    \E a \in StableDeposits :
        SubmitStep(DepositGroup(pool, a[1], a[2], a[3]))

\* half of the LP in circulation is burned
StableBurn == SubmitStep(BurnGroup(pool, pool.lp_circulation \div 2))

\* the admin ramps once
StableRamp ==
    \E a \in StableRamps :
        /\ nadm = 0
        /\ SubmitAdmin(Call("admin", "ramp_amplification_factor",
                            a[1], now + a[2]))
        /\ UNCHANGED sched

\* the next block is three seconds later
StableTick ==
    /\ last.ok
    /\ now + 3 <= MaxTime
    /\ now' = now + 3
    /\ UNCHANGED <<pool, manager, last, sched, nops, nadm, nmgr, calc>>

StableNext ==
    \/ InitializePool
    \/ StableDeposit
    \/ StableBurn
    \/ StableRamp
    \/ StableTick

StableSpec == StableInit /\ [][StableNext]_vars

(***************************************************************************)
(* The StableSwap invariant at full uint64 width: compute_D and            *)
(* compute_other_asset_output_stable_swap, one pass of a loop per step.    *)
(***************************************************************************)
\* totals from 1000 to 2^62
SolverTotals == {BigOf(1000), BigOf(1000000), BigTwoTo(31), BigTwoTo(62)}

SolverNewTotals == {BigOf(1001), BigOf(2000000), BigTwoTo(62)}

\* amplification factors from 1 to MAX_AMPLIFICATION_FACTOR - 1
SolverFactors ==
    {1, 249999, 250000, 1000000, MAX_AMPLIFICATION_FACTOR - 1}

SolverInit ==
    /\ pool = CreatedPool(ALGO_ASSET_ID)
    /\ manager = [exists |-> TRUE,
                  reserve_factor |-> DEFAULT_RESERVE_FACTOR,
                  flash_loan_fee |-> INIT_FLASH_LOAN_FEE,
                  max_flash_loan_ratio |-> INIT_MAX_FLASH_LOAN_RATIO]
    /\ now = 1
    /\ last = NoGroup
    /\ sched = [time |-> 0, delay |-> 0, fee |-> 0]
    /\ nops = 0
    /\ nadm = 0
    /\ nmgr = 0
    /\ \E x \in SolverTotals, y \in SolverTotals, n \in SolverNewTotals,
          A \in SolverFactors :
           calc = [input_asset_new_total |-> n,
                   input_asset_previous_total |-> x,
                   previous_output_asset_total |-> y,
                   amplification_param |-> A,
                   d |-> compute_D_start(x, y, A),
                   o |-> NoOther]

\* one pass of the loop of compute_D
ComputeDPass ==
    /\ calc.d.status = "running"
    /\ calc' = [calc EXCEPT !.d = compute_D_pass(calc.d)]
    /\ UNCHANGED <<pool, manager, now, last, sched, nops, nadm, nmgr>>

\* D.store(compute_D(...)), b.store, c.store and the first guess
ComputeOtherStart ==
    /\ calc.d.status # "running"
    /\ calc.o.status = "idle"
    /\ calc' = [calc EXCEPT !.o = compute_other_start(
                                      calc.input_asset_new_total,
                                      calc.previous_output_asset_total,
                                      calc.amplification_param, calc.d)]
    /\ UNCHANGED <<pool, manager, now, last, sched, nops, nadm, nmgr>>

\* one pass of the loop of compute_other_asset_output_stable_swap
ComputeOtherPass ==
    /\ calc.o.status = "running"
    /\ calc' = [calc EXCEPT !.o = compute_other_pass(calc.o)]
    /\ UNCHANGED <<pool, manager, now, last, sched, nops, nadm, nmgr>>

SolverNext == ComputeDPass \/ ComputeOtherStart \/ ComputeOtherPass

SolverSpec == SolverInit /\ [][SolverNext]_vars

(***************************************************************************)
(* Properties                                                              *)
(***************************************************************************)
\* the last group was accepted and its transaction k is the call name
Accepted(name, k) ==
    /\ last.ok
    /\ Len(last.group) > k
    /\ Gtxn(last.group, k).type = "appl"
    /\ Gtxn(last.group, k).arg0 = name

\* the last group was rejected and its transaction k is the call name
Rejected(name, k) ==
    /\ ~last.ok
    /\ Len(last.group) > k
    /\ Gtxn(last.group, k).type = "appl"
    /\ Gtxn(last.group, k).arg0 = name

\* what transaction k of the last group did: the pool before it (pre),
\* after it (post) and its outputs (o)
Did(k) == last.calls[k + 1]

AcceptedDeposit == Accepted("pool", 2)
AcceptedBurn == Accepted("burn_asset2_out", 2)
AcceptedSwapExactFor == Accepted("swap_exact_for", 1)
AcceptedSwapForExact == Accepted("swap_for_exact", 1)
AcceptedSwap == AcceptedSwapExactFor \/ AcceptedSwapForExact
AcceptedFlashLoan == Accepted("flash_loan", 0)

BalancesValid ==
    /\ pool.balance_1 >= 1000
    /\ pool.balance_2 >= 1000
    /\ pool.balance_1 \div pool.balance_2 < 1000000000
    /\ pool.balance_2 \div pool.balance_1 < 1000000000

BurnedLp == Gtxn(last.group, 0).asset_amount

\* C2: on an initialized pool lp_circulation = 0 exactly when
\* balance_1 + balance_2 = 0, and an accepted burn of exactly lp_circulation
\* pays out the whole of balance_1 and balance_2 and leaves all three at 0
C2_EmptyTogetherAndFullBurn ==
    /\ pool.initialized =>
           ((pool.lp_circulation = 0) <=>
                (pool.balance_1 + pool.balance_2 = 0))
    /\ (AcceptedBurn /\ BurnedLp = Did(1).pre.lp_circulation) =>
           /\ Did(1).o.sent1 = Did(1).pre.balance_1
           /\ Did(2).o.sent2 = Did(1).pre.balance_2
           /\ pool.balance_1 = 0
           /\ pool.balance_2 = 0
           /\ pool.lp_circulation = 0

\* all the LP of a funded pool was burned
C2_Witness ==
    /\ AcceptedBurn
    /\ BurnedLp = Did(1).pre.lp_circulation
    /\ Did(1).pre.balance_1 > 0
    /\ pool.lp_circulation = 0

\* a part of the LP was burned: the pool keeps balances and circulation
C2_WitnessPartial ==
    /\ AcceptedBurn
    /\ BurnedLp < Did(1).pre.lp_circulation
    /\ pool.lp_circulation > 0
    /\ pool.balance_1 > 0

\* the pool before the last group
Before == last.calls[1].pre

\* balance_1 * balance_2, as the pair <<high part, low part>>
Product(st) == WideMul(st.balance_1, st.balance_2)

WideLess(x, y) == ~WideLeq(y, x)

ProductNotLess == WideLeq(Product(Before), Product(pool))

ProductGreater == WideLess(Product(Before), Product(pool))

\* C3 as stated: balance_1 * balance_2 does not decrease in a deposit or a
\* swap, and every successful swap leaves it strictly greater, whatever
\* reserve_factor the manager holds
C3_Original ==
    /\ (AcceptedDeposit \/ AcceptedSwap) => ProductNotLess
    /\ AcceptedSwap => ProductGreater

\* C3 amended: balance_1 * balance_2 does not decrease in a deposit or a
\* swap; every successful swap_for_exact, and every successful
\* swap_exact_for made with a reserve_factor below 1e6, leaves it strictly
\* greater (at reserve_factor = 1e6 the whole fee goes to the reserve and a
\* swap_exact_for can leave the product as it was)
C3_ProductGrows ==
    /\ (AcceptedDeposit \/ AcceptedSwap) => ProductNotLess
    /\ AcceptedSwapForExact => ProductGreater
    /\ (AcceptedSwapExactFor /\ pool.reserve_factor < 1000000)
           => ProductGreater

\* a swap_exact_for at the default reserve_factor raised the product
C3_Witness ==
    /\ AcceptedSwapExactFor
    /\ pool.reserve_factor = 175000
    /\ ProductGreater

\* a swap_exact_for at reserve_factor = 1e6 left the product as it was
C3_WitnessFullReserve ==
    /\ AcceptedSwapExactFor
    /\ pool.reserve_factor = 1000000
    /\ Product(Before) = Product(pool)

\* what the swap of the last group paid out, charged, and the balances of
\* the paid and the charged asset before it
SwapOutput == Did(1).o.sent1 + Did(1).o.sent2
SwapCharged == Did(1).o.in1 + Did(1).o.in2
SwapBalanceIn ==
    IF Did(1).o.swap_input_is_asset1
    THEN Did(1).pre.balance_1 ELSE Did(1).pre.balance_2
SwapBalanceOut ==
    IF Did(1).o.swap_input_is_asset1
    THEN Did(1).pre.balance_2 ELSE Did(1).pre.balance_1

\* C4: for every successful swap, in either mode,
\* output * pre_balance_in < input_charged * pre_balance_out
C4_NoValueCreation ==
    AcceptedSwap =>
        WideLess(WideMul(SwapOutput, SwapBalanceIn),
                 WideMul(SwapCharged, SwapBalanceOut))

\* a swap_for_exact paid out its exact amount and charged less than was sent
C4_Witness ==
    /\ AcceptedSwapForExact
    /\ SwapOutput = 500
    /\ SwapCharged > 0
    /\ SwapCharged < Gtxn(last.group, 0).amount
                         + Gtxn(last.group, 0).asset_amount

\* a swap_exact_for of asset2 paid out asset1
C4_WitnessExactFor ==
    /\ AcceptedSwapExactFor
    /\ ~Did(1).o.swap_input_is_asset1
    /\ SwapOutput > 0
    /\ SwapCharged = 1003

\* the last group is an accepted deposit into an empty pool
DepositedIntoEmpty == AcceptedDeposit /\ pool_is_empty(Before)

\* the two amounts the last group (a deposit) transferred to the pool
DepositedAsset1 ==
    Gtxn(last.group, 0).amount + Gtxn(last.group, 0).asset_amount
DepositedAsset2 == Gtxn(last.group, 1).asset_amount

\* C5: a deposit of (a1, a2) into an empty pool followed, with no pool call
\* in between, by a burn of all the LP it minted returns exactly a1 of
\* asset1 and a2 of asset2 and leaves the pool empty
C5_DepositBurnRoundTrip ==
    [][(/\ DepositedIntoEmpty
        /\ AcceptedBurn'
        /\ BurnedLp' = Did(2).o.sent_lp)
           => /\ (Did(1).o.sent1)' = DepositedAsset1
              /\ (Did(2).o.sent2)' = DepositedAsset2
              /\ pool_is_empty(pool')
              /\ pool'.lp_circulation = 0]_vars

\* the second of two balance-changing groups burned the whole circulation,
\* which only the first, a deposit into the empty pool, can have minted, and
\* it paid out (2000, 3000)
C5_Witness ==
    /\ AcceptedBurn
    /\ nops = 2
    /\ BurnedLp = Before.lp_circulation
    /\ BurnedLp > 0
    /\ Did(1).o.sent1 = 2000
    /\ Did(2).o.sent2 = 3000
    /\ pool_is_empty(pool)

\* the flash loan of the last group: its asset, its amount, the fee rate the
\* pool loaded for it and the last transaction of the group
FlashLoanAsset == Gtxn(last.group, 0).arg1
FlashLoanAmount == Gtxn(last.group, 0).arg2
FlashLoanIsAsset1 == FlashLoanAsset = pool.asset1_id
FlashLoanRate == pool.flash_loan_fee
FlashLoanLast == Gtxn(last.group, Len(last.group) - 1)

\* the last transaction transfers the loaned asset to the pool escrow
RepaysLoanedAsset ==
    IF FlashLoanAsset = ALGO_ASSET_ID
    THEN FlashLoanLast.type = "pay" /\ FlashLoanLast.receiver = "pool"
    ELSE /\ FlashLoanLast.type = "axfer"
         /\ FlashLoanLast.xfer_asset = FlashLoanAsset
         /\ FlashLoanLast.asset_receiver = "pool"

RepaidAmount == FlashLoanLast.amount + FlashLoanLast.asset_amount

\* floor(L * f / 1e6) and ceil(L * f / 1e6) for the loan of the last group
FlashLoanFloor == MulDivQR(FlashLoanAmount, FlashLoanRate, 1000000)[1]
FlashLoanCeil ==
    FlashLoanFloor
    + (IF MulDivQR(FlashLoanAmount, FlashLoanRate, 1000000)[2] > 0
       THEN 1 ELSE 0)

\* C6 as stated: a flash loan of L is accepted only if the last transaction
\* of the group transfers the loaned asset to the pool in the amount
\* L + ceil(L * flash_loan_fee / 1e6)
C6_Original ==
    AcceptedFlashLoan =>
        /\ RepaysLoanedAsset
        /\ RepaidAmount = FlashLoanAmount + FlashLoanCeil

\* C6 amended: a flash loan of L is accepted only if the last transaction of
\* the group transfers the loaned asset to the pool in the amount
\* L + floor(L * flash_loan_fee / 1e6) + 1, which is one more than the
\* ceiling whenever L * flash_loan_fee is a multiple of 1e6
C6_RepaysLoanPlusFee ==
    AcceptedFlashLoan =>
        /\ RepaysLoanedAsset
        /\ RepaidAmount = FlashLoanAmount + FlashLoanFloor + 1
        /\ RepaidAmount >= FlashLoanAmount + FlashLoanCeil

\* an accepted loan whose fee is the ceiling (100 at rate 1000: fee 1)
C6_Witness ==
    /\ AcceptedFlashLoan
    /\ FlashLoanAmount = 100
    /\ FlashLoanRate = 1000
    /\ RepaidAmount = 101

\* an accepted loan whose fee is one above the ceiling (1000 at rate 1000)
C6_WitnessMultiple ==
    /\ AcceptedFlashLoan
    /\ FlashLoanAmount = 1000
    /\ FlashLoanRate = 1000
    /\ RepaidAmount = 1002

\* balance and reserve of the loaned asset in a pool state
LoanBalance(st) == IF FlashLoanIsAsset1 THEN st.balance_1 ELSE st.balance_2
LoanReserve(st) ==
    IF FlashLoanIsAsset1 THEN st.asset1_reserve ELSE st.asset2_reserve
OtherBalance(st) == IF FlashLoanIsAsset1 THEN st.balance_2 ELSE st.balance_1

\* a rejected group leaves every field of the pool as it was
RejectedGroupChangesNothing ==
    [][(last' # last /\ ~last'.ok) => pool' = pool]_vars

\* C7 as stated: after a successful flash loan of L of asset k at rate f,
\* balance_k is at least its value before plus ceil(L * f / 1e6); a group
\* whose repayment check fails leaves the pool as it was
C7_Original ==
    /\ [](AcceptedFlashLoan =>
              LoanBalance(pool) >= LoanBalance(Before) + FlashLoanCeil)
    /\ RejectedGroupChangesNothing

\* the part of the fee of the last flash loan that went to the reserve
FlashLoanToReserve ==
    MulDivQR(FlashLoanFloor + 1, pool.reserve_factor, 1000000)[1]

\* C7 amended: after a successful flash loan with
\* fee = floor(L * f / 1e6) + 1, asset k's reserve has grown by
\* floor(fee * reserve_factor / 1e6) and balance_k by the rest of the fee,
\* so balance_k is not below its value before and balance_k plus the reserve
\* has grown by fee >= ceil(L * f / 1e6); the other balance is as before; a
\* rejected group leaves the pool as it was
C7_FeeSplitAndRollback ==
    /\ [](AcceptedFlashLoan =>
              /\ LoanReserve(pool) = LoanReserve(Before) + FlashLoanToReserve
              /\ LoanBalance(pool) = LoanBalance(Before)
                                         + (FlashLoanFloor + 1)
                                         - FlashLoanToReserve
              /\ LoanBalance(pool) >= LoanBalance(Before)
              /\ LoanBalance(pool) + LoanReserve(pool)
                     >= LoanBalance(Before) + LoanReserve(Before)
                            + FlashLoanCeil
              /\ OtherBalance(pool) = OtherBalance(Before))
    /\ RejectedGroupChangesNothing

\* a loan of 100000 at the default rate and reserve factor: fee 101, of
\* which 17 go to the reserve, so the balance grows by 84, less than
\* ceil(L * f / 1e6) = 100
C7_Witness ==
    /\ AcceptedFlashLoan
    /\ FlashLoanAmount = 100000
    /\ FlashLoanRate = 1000
    /\ pool.reserve_factor = 175000
    /\ LoanBalance(pool) = LoanBalance(Before) + 84
    /\ LoanReserve(pool) = LoanReserve(Before) + 17

\* a flash loan whose repayment is one short was rejected
C7_WitnessRejected ==
    /\ Rejected("flash_loan", 0)
    /\ RepaysLoanedAsset
    /\ RepaidAmount = FlashLoanAmount + FlashLoanFloor
    /\ FlashLoanAmount = 1000

\* the indexes of the flash_loan calls of the last group
FlashLoanCalls ==
    {k \in 0..(Len(last.group) - 1) :
        /\ Gtxn(last.group, k).type = "appl"
        /\ Gtxn(last.group, k).application_id = "pool"
        /\ Gtxn(last.group, k).arg0 = "flash_loan"}

\* C8: a group with a flash-loan call is accepted only if the call is
\* transaction 0, its asset is asset1 or asset2 of the pool, its amount is
\* above 0 and at most floor(balance_k * max_flash_loan_ratio / 1e6) of the
\* asset's balance at the call; so an accepted group holds one flash loan
C8_FlashLoanValidated ==
    last.ok =>
        \A k \in FlashLoanCalls :
            /\ k = 0
            /\ FlashLoanAsset \in {pool.asset1_id, pool.asset2_id}
            /\ FlashLoanAmount > 0
            /\ FlashLoanAmount
                   <= MulDivQR(LoanBalance(Before),
                               pool.max_flash_loan_ratio, 1000000)[1]

\* a loan of exactly the maximum (a tenth of 1000000) was accepted
C8_Witness ==
    /\ AcceptedFlashLoan
    /\ FlashLoanAmount = 100000
    /\ LoanBalance(Before) = 1000000
    /\ pool.max_flash_loan_ratio = 100000

\* a loan of one above the maximum was rejected
C8_WitnessAboveMaximum ==
    /\ Rejected("flash_loan", 0)
    /\ FlashLoanAmount = 100001
    /\ pool.balance_1 = 1000000
    /\ pool.max_flash_loan_ratio = 100000

\* a flash loan that is transaction 1 of its group was rejected
C8_WitnessNotFirst == Rejected("flash_loan", 1)

\* a flash loan of an asset that is neither asset1 nor asset2 was rejected
C8_WitnessOtherAsset ==
    /\ Rejected("flash_loan", 0)
    /\ pool.initialized
    /\ FlashLoanAsset = pool.lp_id

\* the step is an accepted update_swap_fee call of the admin, made later
\* than swap_fee_update_time, that makes the fee of the last accepted
\* schedule call active; that call was made at least the param_update_delay
\* of its moment earlier
ActivatesScheduledFee ==
    /\ last' # last
    /\ last'.ok
    /\ Len(last'.group) = 1
    /\ Gtxn(last'.group, 0).arg0 = "update_swap_fee"
    /\ Gtxn(last'.group, 0).sender = pool.admin
    /\ last'.time > pool.swap_fee_update_time
    /\ pool'.swap_fee_pct_scaled_var = sched.fee
    /\ sched.time > 0
    /\ last'.time - sched.time >= sched.delay

\* the step is the initialize_pool call, which sets the default fee
SetsDefaultFee ==
    /\ ~pool.initialized
    /\ pool'.initialized
    /\ pool'.swap_fee_pct_scaled_var = 2500

\* once initialize_pool has set the default, the active swap fee changes
\* only by an activation
ActiveFeeChangesOnlyByUpdate ==
    [][pool'.swap_fee_pct_scaled_var # pool.swap_fee_pct_scaled_var
           => (ActivatesScheduledFee \/ SetsDefaultFee)]_vars

\* the input of the swap of the last group
SwapInput == Gtxn(last.group, 0).amount + Gtxn(last.group, 0).asset_amount

\* the active fee rate when the swap of the last group ran
ActiveFeeAtSwap == Did(1).pre.swap_fee_pct_scaled_var

\* a swap is charged at the active fee rate
SwapChargedAtActiveFee ==
    /\ AcceptedSwapExactFor =>
           Did(1).o.fee = MulDivQR(SwapInput, ActiveFeeAtSwap, 1000000)[1] + 1
    /\ AcceptedSwapForExact =>
           Did(1).o.fee
               = MulDivQR(SwapCharged - Did(1).o.fee, 1000000,
                          1000000 - ActiveFeeAtSwap)[1]
                 + 1 - (SwapCharged - Did(1).o.fee)

\* C9: the active swap fee, once initialize_pool has set its default,
\* changes only in an admin update_swap_fee call made at a time strictly
\* later than swap_fee_update_time, to the fee of the most recent schedule
\* call, made at least param_update_delay earlier; no swap, deposit, burn,
\* flash loan or schedule call changes it, and a swap is charged at the
\* active fee, never at the pending one
C9_FeeActivation ==
    /\ ActiveFeeChangesOnlyByUpdate
    /\ []SwapChargedAtActiveFee

\* update_swap_fee activated the scheduled fee 30000 after its time
C9_Witness ==
    /\ Accepted("update_swap_fee", 0)
    /\ Before.swap_fee_pct_scaled_var = 2500
    /\ pool.swap_fee_pct_scaled_var = 30000
    /\ sched.fee = 30000
    /\ last.time > pool.swap_fee_update_time

\* a swap made while the fee 30000 was pending was charged at 2500
C9_WitnessPending ==
    /\ AcceptedSwapExactFor
    /\ ActiveFeeAtSwap = 2500
    /\ Did(1).pre.next_swap_fee_pct_scaled_var = 30000
    /\ Did(1).o.fee = 3

\* a swap made after the activation was charged at 30000
C9_WitnessActivated ==
    /\ AcceptedSwapExactFor
    /\ ActiveFeeAtSwap = 30000
    /\ Did(1).o.fee = 31

\* update_swap_fee at the scheduled time itself was rejected
C9_WitnessTooEarly ==
    /\ Rejected("update_swap_fee", 0)
    /\ Gtxn(last.group, 0).sender = "admin"
    /\ pool.swap_fee_update_time = last.time

\* the schedule_swap_fee_update call of the last group
ScheduleCall == Gtxn(last.group, 0)

\* C10: schedule_swap_fee_update is accepted only with
\* update_time >= now + param_update_delay and 0 < new_fee < 1e6; a rejected
\* call leaves swap_fee_update_time and next_swap_fee_pct_scaled as they were
C10_ScheduleValidated ==
    /\ [](Accepted("schedule_swap_fee_update", 0) =>
              /\ ScheduleCall.arg1 >= last.time + Before.param_update_delay
              /\ ScheduleCall.arg2 > 0
              /\ ScheduleCall.arg2 < 1000000)
    /\ [][(last' # last /\ Rejected("schedule_swap_fee_update", 0)')
              => /\ pool'.swap_fee_update_time = pool.swap_fee_update_time
                 /\ pool'.next_swap_fee_pct_scaled_var
                        = pool.next_swap_fee_pct_scaled_var]_vars

\* the admin's call with update_time one below now + param_update_delay was
\* rejected
C10_Witness ==
    /\ Rejected("schedule_swap_fee_update", 0)
    /\ ScheduleCall.sender = "admin"
    /\ pool.initialized
    /\ ScheduleCall.arg1 = last.time + pool.param_update_delay - 1
    /\ ScheduleCall.arg2 = 30000

\* the admin's calls with new_fee = 0 and new_fee = 1e6 were rejected
C10_WitnessFeeZero ==
    /\ Rejected("schedule_swap_fee_update", 0)
    /\ ScheduleCall.sender = "admin"
    /\ pool.initialized
    /\ ScheduleCall.arg2 = 0

C10_WitnessFeeScale ==
    /\ Rejected("schedule_swap_fee_update", 0)
    /\ ScheduleCall.sender = "admin"
    /\ pool.initialized
    /\ ScheduleCall.arg2 = 1000000

\* the call with update_time = now + param_update_delay was accepted
C10_WitnessAccepted ==
    /\ Accepted("schedule_swap_fee_update", 0)
    /\ ScheduleCall.arg1 = last.time + Before.param_update_delay
    /\ pool.swap_fee_update_time = ScheduleCall.arg1
    /\ pool.next_swap_fee_pct_scaled_var = 30000

\* the step is an accepted increase_param_update_delay call of the admin
\* with a value above the current delay, which becomes the delay
IncreasesParamDelay ==
    /\ last' # last
    /\ last'.ok
    /\ Len(last'.group) = 1
    /\ Gtxn(last'.group, 0).arg0 = "increase_param_update_delay"
    /\ Gtxn(last'.group, 0).sender = pool.admin
    /\ Gtxn(last'.group, 0).arg1 > pool.param_update_delay
    /\ pool'.param_update_delay = Gtxn(last'.group, 0).arg1

\* the step is the initialize_pool call, which sets the default delay
SetsDefaultParamDelay ==
    /\ ~pool.initialized
    /\ pool'.initialized
    /\ pool'.param_update_delay = 5

\* C11: param_update_delay never decreases: after initialize_pool has set
\* it, only an increase_param_update_delay call with a value strictly
\* greater than the current one writes it
C11_ParamDelayOnlyGrows ==
    /\ [][pool'.param_update_delay # pool.param_update_delay
              => (IncreasesParamDelay \/ SetsDefaultParamDelay)]_vars
    /\ [][pool'.param_update_delay >= pool.param_update_delay]_vars

\* the admin raised the delay from 5 to 7
C11_Witness ==
    /\ Accepted("increase_param_update_delay", 0)
    /\ Before.param_update_delay = 5
    /\ pool.param_update_delay = 7

\* the admin's call with 3, below the current delay, was rejected
C11_WitnessLower ==
    /\ Rejected("increase_param_update_delay", 0)
    /\ Gtxn(last.group, 0).sender = "admin"
    /\ Gtxn(last.group, 0).arg1 = 3
    /\ pool.param_update_delay >= 5

AdminCallNames ==
    {"remove_reserves", "update_swap_fee", "schedule_swap_fee_update",
     "increase_param_update_delay", "ramp_amplification_factor"}

\* the last group holds an admin-gated call of this pool sent by an account
\* other than the pool's admin
NonAdminCall ==
    \E k \in 0..(Len(last.group) - 1) :
        /\ Gtxn(last.group, k).type = "appl"
        /\ Gtxn(last.group, k).application_id = "pool"
        /\ Gtxn(last.group, k).arg0 \in AdminCallNames
        /\ Gtxn(last.group, k).sender # pool.admin

\* C12: every call to remove_reserves, update_swap_fee,
\* schedule_swap_fee_update, increase_param_update_delay or
\* ramp_amplification_factor sent by an account other than the pool's admin
\* is rejected and leaves the pool state unchanged
C12_AdminOnly ==
    [][(last' # last /\ NonAdminCall') => (~last'.ok /\ pool' = pool)]_vars

\* remove_reserves sent by another account to a pool that holds a reserve
\* was rejected
C12_Witness ==
    /\ Rejected("remove_reserves", 0)
    /\ Gtxn(last.group, 0).sender = "user"
    /\ pool.initialized
    /\ pool.asset1_reserve > 0

\* ramp_amplification_factor sent by another account to an initialized
\* stable pool, with arguments the admin's call is accepted with, was rejected
C12_WitnessRamp ==
    /\ Rejected("ramp_amplification_factor", 0)
    /\ Gtxn(last.group, 0).sender = "user"
    /\ pool.stable
    /\ pool.initialized
    /\ Gtxn(last.group, 0).arg1 = 200
    /\ Gtxn(last.group, 0).arg2 = last.time + pool.param_update_delay

\* the admin's ramp_amplification_factor call was accepted
C12_WitnessAdminRamp ==
    /\ Accepted("ramp_amplification_factor", 0)
    /\ Gtxn(last.group, 0).sender = "admin"
    /\ pool.future_amplification_factor = 200

\* update_swap_fee sent by another account after the scheduled time
C12_WitnessUpdate ==
    /\ Rejected("update_swap_fee", 0)
    /\ Gtxn(last.group, 0).sender = "user"
    /\ pool.swap_fee_update_time > 0
    /\ last.time > pool.swap_fee_update_time

RemovedReserves == Accepted("remove_reserves", 0)

\* C13: an accepted remove_reserves sends exactly asset1_reserve and
\* asset2_reserve to its caller, the admin, sets both reserves to 0 and
\* leaves balance_1, balance_2 and lp_circulation unchanged; no other step
\* decreases asset1_reserve or asset2_reserve
C13_RemoveReserves ==
    [][/\ (last' # last /\ RemovedReserves') =>
            /\ Gtxn(last'.group, 0).sender = pool.admin
            /\ Did(0)'.o.sent1 = pool.asset1_reserve
            /\ Did(0)'.o.sent2 = pool.asset2_reserve
            /\ Did(0)'.o.sent_lp = 0
            /\ pool'.asset1_reserve = 0
            /\ pool'.asset2_reserve = 0
            /\ pool'.balance_1 = pool.balance_1
            /\ pool'.balance_2 = pool.balance_2
            /\ pool'.lp_circulation = pool.lp_circulation
       /\ (last' = last \/ ~RemovedReserves') =>
            /\ pool'.asset1_reserve >= pool.asset1_reserve
            /\ pool'.asset2_reserve >= pool.asset2_reserve]_vars

\* the admin removed a positive reserve of asset 1 from a pool in use
C13_Witness ==
    /\ RemovedReserves
    /\ Did(0).o.sent1 > 0
    /\ Did(0).pre.asset1_reserve = Did(0).o.sent1
    /\ pool.asset1_reserve = 0
    /\ pool.balance_1 > 0
    /\ pool.lp_circulation > 0

\* the admin removed a positive reserve of asset 2
C13_WitnessAsset2 ==
    /\ RemovedReserves
    /\ Did(0).o.sent2 > 0
    /\ pool.asset2_reserve = 0

\* a swap or flash loan added to a reserve
C13_WitnessAccrued ==
    /\ last.ok
    /\ Len(last.calls) > 0
    /\ pool.asset1_reserve + pool.asset2_reserve
           > Before.asset1_reserve + Before.asset2_reserve

\* the group g holds a call of this pool whose name is (is_init) or is not
\* initialize_pool
HoldsPoolCall(g, is_init) ==
    \E k \in 0..(Len(g) - 1) :
        /\ Gtxn(g, k).type = "appl"
        /\ Gtxn(g, k).application_id = "pool"
        /\ (Gtxn(g, k).arg0 = "initialize_pool") = is_init

\* C14: until initialize_pool succeeds every group holding another call of
\* the pool is rejected and the pool stays uninitialized; once initialized,
\* every group holding an initialize_pool call is rejected, initialized
\* stays true and lp_id never changes
C14_InitializedOnce ==
    [][/\ (~pool.initialized /\ last' # last
              /\ HoldsPoolCall(last'.group, FALSE)) => ~last'.ok
       /\ (~pool.initialized /\ pool'.initialized) =>
              /\ last' # last
              /\ last'.ok
              /\ last'.group = <<Gtxn(last'.group, 0)>>
              /\ Gtxn(last'.group, 0).arg0 = "initialize_pool"
       /\ (pool.initialized /\ last' # last
              /\ HoldsPoolCall(last'.group, TRUE)) => ~last'.ok
       /\ pool.initialized =>
              /\ pool'.initialized
              /\ pool'.lp_id = pool.lp_id]_vars

\* initialize_pool was called on the initialized pool and rejected
C14_Witness ==
    /\ Rejected("initialize_pool", 0)
    /\ pool.initialized
    /\ pool.lp_id = LP_ID

\* initialize_pool was accepted
C14_WitnessInitialized ==
    /\ Accepted("initialize_pool", 0)
    /\ pool.initialized
    /\ ~Before.initialized
    /\ Before.lp_id # pool.lp_id

\* a deposit into the pool that is not yet initialized was rejected
C14_WitnessDepositBefore ==
    /\ Rejected("pool", 2)
    /\ ~pool.initialized

\* a call of the admin to the pool that is not yet initialized was rejected
C14_WitnessAdminBefore ==
    /\ Rejected("increase_param_update_delay", 0)
    /\ Gtxn(last.group, 0).sender = "admin"
    /\ Gtxn(last.group, 0).arg1 = 7
    /\ ~pool.initialized

\* a1 * a2 of the first deposit
SeedProduct == BigMul(calc.a1, calc.a2)

SeedAccepted == calc.done /\ calc.ok

\* C15: a deposit of (a1, a2) into an empty constant-product pool issues
\* isqrt(a1 * a2) whenever a1 * a2 fits in 64 bits, and
\* isqrt(a1) * isqrt(a2) only when a1 * a2 would overflow 64 bits
C15_Original ==
    SeedAccepted =>
        calc.lp_issued =
            IF FitsU64(SeedProduct) THEN BigSqrt(SeedProduct)
            ELSE BigMul(BigSqrt(calc.a1), BigSqrt(calc.a2))

\* what the code does: isqrt(a1 * a2) when floor((2^64 - 1) / a1) > a2 and
\* isqrt(a1) * isqrt(a2) otherwise, so the two differ from C15 only where
\* floor((2^64 - 1) / a1) = a2
C15_IssuanceOfCode ==
    SeedAccepted =>
        /\ BigLess(calc.a2, BigDiv(MAX_INT_U64, calc.a1)) =>
               FitsU64(SeedProduct) /\ calc.lp_issued = BigSqrt(SeedProduct)
        /\ ~FitsU64(SeedProduct) =>
               calc.lp_issued = BigMul(BigSqrt(calc.a1), BigSqrt(calc.a2))
        /\ calc.lp_issued # BigSqrt(SeedProduct) =>
               \/ ~FitsU64(SeedProduct)
               \/ BigDiv(MAX_INT_U64, calc.a1) = calc.a2

\* the deposit of (2^32, 2^32 - 1): the product 2^64 - 2^32 fits in 64 bits,
\* its integer square root is 2^32 - 1, and the pool issued 65536 * 65535
C15_Witness ==
    /\ SeedAccepted
    /\ calc.a1 = BigTwoTo(32)
    /\ calc.a2 = BigSub(BigTwoTo(32), <<1>>)
    /\ FitsU64(SeedProduct)
    /\ BigSqrt(SeedProduct) = BigSub(BigTwoTo(32), <<1>>)
    /\ calc.lp_issued = BigMul(BigOf(65536), BigOf(65535))

\* a deposit whose product overflows issued isqrt(a1) * isqrt(a2), and one
\* whose product fits issued isqrt(a1 * a2)
C15_WitnessOverflow ==
    /\ SeedAccepted
    /\ ~FitsU64(SeedProduct)
    /\ calc.lp_issued # <<>>

C15_WitnessFits ==
    /\ SeedAccepted
    /\ calc.a1 = BigTwoTo(31)
    /\ calc.a2 = BigTwoTo(32)
    /\ calc.lp_issued = BigSqrt(SeedProduct)

DepositedIntoNonEmpty == AcceptedDeposit /\ ~pool_is_empty(Before)

\* what the deposit added to balance_1, balance_2 and lp_circulation
AddedBalance1 == pool.balance_1 - Before.balance_1
AddedBalance2 == pool.balance_2 - Before.balance_2
IssuedLp == pool.lp_circulation - Before.lp_circulation

\* floor(adj_k * L / balance_k) on the pool before the deposit
IssuedFromAsset1 ==
    MulDivQR(AddedBalance1, Before.lp_circulation, Before.balance_1)[1]
IssuedFromAsset2 ==
    MulDivQR(AddedBalance2, Before.lp_circulation, Before.balance_2)[1]

\* C16: a deposit into a non-empty pool issues
\* min(floor(adj1 * L / balance_1), floor(adj2 * L / balance_2)) for the
\* amounts adj1, adj2 added to the balances and L = lp_circulation before,
\* and balance_k / lp_circulation is afterwards not smaller than before
C16_IssuanceAndNoDilution ==
    DepositedIntoNonEmpty =>
        /\ IssuedLp = Did(2).o.sent_lp
        /\ IssuedLp <= IssuedFromAsset1
        /\ IssuedLp <= IssuedFromAsset2
        /\ IssuedLp = IssuedFromAsset1 \/ IssuedLp = IssuedFromAsset2
        /\ WideLeq(WideMul(Before.balance_1, pool.lp_circulation),
                   WideMul(pool.balance_1, Before.lp_circulation))
        /\ WideLeq(WideMul(Before.balance_2, pool.lp_circulation),
                   WideMul(pool.balance_2, Before.lp_circulation))

\* a deposit into a non-empty pool where the two conversions differ, so the
\* minimum decides, and balance_1 / lp_circulation grew
C16_Witness ==
    /\ DepositedIntoNonEmpty
    /\ IssuedFromAsset1 # IssuedFromAsset2
    /\ IssuedLp > 0
    /\ WideLess(WideMul(Before.balance_1, pool.lp_circulation),
                WideMul(pool.balance_1, Before.lp_circulation))

\* a deposit at the pool's ratio: both conversions agree
C16_WitnessAtRatio ==
    /\ DepositedIntoNonEmpty
    /\ IssuedFromAsset1 = IssuedFromAsset2

\* what the two redeem calls that follow the pool call sent
RefundedAsset1 == Did(3).o.sent1
RefundedAsset2 == Did(4).o.sent2

\* C17: in every accepted deposit of (a1, a2), for each asset the amount
\* added to the balance plus the residual the paired redeem call refunds is
\* the amount transferred in; at most one residual is nonzero; into an empty
\* pool both residuals are 0 and the balances become exactly (a1, a2)
C17_DepositConservation ==
    AcceptedDeposit =>
        /\ AddedBalance1 + RefundedAsset1 = DepositedAsset1
        /\ AddedBalance2 + RefundedAsset2 = DepositedAsset2
        /\ AddedBalance1 > 0 /\ AddedBalance2 > 0
        /\ RefundedAsset1 >= 0 /\ RefundedAsset2 >= 0
        /\ RefundedAsset1 = 0 \/ RefundedAsset2 = 0
        /\ Did(3).o.sent2 = 0 /\ Did(4).o.sent1 = 0
        /\ pool_is_empty(Before) =>
               /\ RefundedAsset1 = 0 /\ RefundedAsset2 = 0
               /\ pool.balance_1 = DepositedAsset1
               /\ pool.balance_2 = DepositedAsset2

\* a deposit with too much asset 1: a residual of asset 1 was refunded
C17_Witness ==
    /\ DepositedIntoNonEmpty
    /\ RefundedAsset1 > 0
    /\ AddedBalance1 < DepositedAsset1
    /\ AddedBalance2 = DepositedAsset2

\* a deposit with too much asset 2
C17_WitnessAsset2 ==
    /\ DepositedIntoNonEmpty
    /\ RefundedAsset2 > 0
    /\ AddedBalance1 = DepositedAsset1

\* a deposit into the empty pool at a ratio other than 1
C17_WitnessEmpty ==
    /\ DepositedIntoEmpty
    /\ pool.balance_1 = 1000
    /\ pool.balance_2 = 2000

\* the pool the last group ran on: a rejected group leaves no write
PreState == IF last.ok THEN Before ELSE pool

\* the last group has the shape of a deposit, a burn, a swap
IsDepositGroup ==
    /\ Len(last.group) = 5
    /\ Gtxn(last.group, 2).arg0 = "pool"
IsBurnGroup ==
    /\ Len(last.group) = 3
    /\ Gtxn(last.group, 1).arg0 = "burn_asset1_out"
    /\ Gtxn(last.group, 2).arg0 = "burn_asset2_out"
IsSwapExactForGroup ==
    /\ Len(last.group) = 2
    /\ Gtxn(last.group, 1).arg0 = "swap_exact_for"
IsSwapForExactGroup ==
    /\ Len(last.group) = 3
    /\ Gtxn(last.group, 1).arg0 = "swap_for_exact"

\* floor(lp * balance / lp_circulation) of a burn that is not the full
\* circulation, on the pool the group ran on
BurnShare(balance) ==
    MulDivQR(BurnedLp, balance, PreState.lp_circulation)[1]

PartialBurn ==
    /\ IsBurnGroup
    /\ PreState.lp_circulation > 0
    /\ BurnedLp # PreState.lp_circulation

\* the amounts a deposit into the non-empty pool would add to the balances
DepositAdjusted ==
    adjust_pool_input_amounts(PreState, DepositedAsset1, DepositedAsset2,
                              Gtxn(last.group, 2).arg1)

\* the deposit would issue 0 LP tokens
DepositWouldIssueZero ==
    /\ IsDepositGroup
    /\ PreState.balance_1 > 0 /\ PreState.balance_2 > 0
    /\ DepositAdjusted.ok
    /\ \/ MulDivQR(DepositAdjusted.adj1, PreState.lp_circulation,
                   PreState.balance_1)[1] = 0
       \/ MulDivQR(DepositAdjusted.adj2, PreState.lp_circulation,
                   PreState.balance_2)[1] = 0

\* the output of a swap_exact_for would be 0: input x, fee at the active
\* rate, quote on the pool the group ran on
SwapNetInput ==
    SwapInput - (MulDivQR(SwapInput, PreState.swap_fee_pct_scaled_var,
                          1000000)[1] + 1)

SwapInputIsAsset1 == swap_input_is_asset1(PreState, Gtxn(last.group, 0))

SwapQuote ==
    IF SwapInputIsAsset1
    THEN MulDivQR(PreState.balance_2, SwapNetInput,
                  PreState.balance_1 + SwapNetInput)[1]
    ELSE MulDivQR(PreState.balance_1, SwapNetInput,
                  PreState.balance_2 + SwapNetInput)[1]

SwapWouldPayZero ==
    /\ IsSwapExactForGroup
    /\ PreState.balance_1 > 0 /\ PreState.balance_2 > 0
    /\ SwapNetInput > 0
    /\ SwapQuote = 0

\* a deposit that would issue 0 LP, a burn that would pay 0 of asset 1 or 0
\* of asset 2, a swap_exact_for whose output is 0 and a swap_for_exact
\* requesting 0 were rejected; what accepted deposits, burns and swaps
\* issued or paid is above 0
ZeroOutputRejected ==
    /\ DepositWouldIssueZero => ~last.ok
    /\ (PartialBurn /\ BurnShare(PreState.balance_1) = 0) => ~last.ok
    /\ (PartialBurn /\ BurnShare(PreState.balance_2) = 0) => ~last.ok
    /\ SwapWouldPayZero => ~last.ok
    /\ (IsSwapForExactGroup /\ Gtxn(last.group, 1).arg1 = 0) => ~last.ok
    /\ AcceptedDeposit => Did(2).o.sent_lp > 0 /\ IssuedLp > 0
    /\ AcceptedBurn => Did(1).o.sent1 > 0 /\ Did(2).o.sent2 > 0
    /\ AcceptedSwap => SwapOutput > 0

\* C18: no successful operation has a zero primary output: a deposit that
\* would issue 0 LP, a burn that would pay 0 of asset 1 or 0 of asset 2, a
\* swap_exact_for whose output is 0 and a swap_for_exact requesting 0 are
\* all rejected, and the rejected group leaves the pool state unchanged
C18_NoZeroOutput ==
    /\ []ZeroOutputRejected
    /\ RejectedGroupChangesNothing

\* a deposit of (1, 1) that would issue 0 LP tokens was rejected
C18_Witness ==
    /\ DepositWouldIssueZero
    /\ ~last.ok
    /\ pool.lp_circulation > 0

\* a burn of 1 LP token that would pay 0 of asset 1, and one that would pay
\* 1 of asset 1 and 0 of asset 2
C18_WitnessBurnAsset1 ==
    /\ PartialBurn
    /\ BurnedLp > 0
    /\ BurnShare(pool.balance_1) = 0
    /\ ~last.ok

C18_WitnessBurnAsset2 ==
    /\ PartialBurn
    /\ BurnShare(pool.balance_1) > 0
    /\ BurnShare(pool.balance_2) = 0
    /\ ~last.ok

\* a swap_exact_for of 3 whose output would be 0
C18_WitnessSwapExactFor ==
    /\ SwapWouldPayZero
    /\ ~last.ok

\* a swap_for_exact requesting 0 on a pool in use
C18_WitnessSwapForExact ==
    /\ IsSwapForExactGroup
    /\ Gtxn(last.group, 1).arg1 = 0
    /\ pool.lp_circulation > 0
    /\ ~last.ok

\* the smallest accepted operations: a burn of 2 LP tokens, a swap of 3
C18_WitnessAccepted ==
    \/ AcceptedBurn /\ BurnedLp = 2
    \/ AcceptedSwapExactFor /\ SwapInput = 3

\* transaction k of the last group is the pool call name
IsPoolCall(k, name) ==
    /\ InGroup(last.group, k)
    /\ Gtxn(last.group, k).type = "appl"
    /\ Gtxn(last.group, k).application_id = "pool"
    /\ Gtxn(last.group, k).arg0 = name

\* transaction k of the last group transfers LP tokens to the pool
IsLpTransfer(k) ==
    /\ InGroup(last.group, k)
    /\ Gtxn(last.group, k).type = "axfer"
    /\ Gtxn(last.group, k).xfer_asset = pool.lp_id
    /\ Gtxn(last.group, k).asset_receiver = "pool"

\* the burn pair at indexes k and k + 1 of the accepted last group: lp is
\* the amount of the transfer at k - 1, L the lp_circulation before the pair
BurnPairPays(k, lp, L) ==
    /\ Did(k).o.lp_in = lp
    /\ Did(k + 1).o.lp_in = lp
    /\ Did(k + 1).pre = Did(k).post
    /\ lp < L =>
           /\ Did(k).o.sent1 = MulDivQR(lp, Did(k).pre.balance_1, L)[1]
           /\ Did(k + 1).o.sent2 = MulDivQR(lp, Did(k).pre.balance_2, L)[1]
    /\ Did(k).o.sent1 <= Did(k).pre.balance_1
    /\ Did(k + 1).o.sent2 <= Did(k).pre.balance_2
    /\ Did(k).post.balance_1 = Did(k).pre.balance_1 - Did(k).o.sent1
    /\ Did(k + 1).post.balance_2 = Did(k).pre.balance_2 - Did(k + 1).o.sent2
    /\ Did(k).post.lp_circulation = L
    /\ Did(k + 1).post.lp_circulation = L - lp

\* C19: in every accepted group burn_asset1_out at index i and
\* burn_asset2_out at index i + 1 occur together and read the same LP
\* transfer at index i - 1; for lp < lp_circulation the pair pays
\* floor(lp * balance_1 / L) and floor(lp * balance_2 / L) against the same
\* pre-burn L, never more than the balance, and lp_circulation is decreased
\* by lp once, by burn_asset2_out
C19_BurnPair ==
    last.ok =>
        \A k \in 0..(Len(last.group) - 1) :
            /\ IsPoolCall(k, "burn_asset1_out") =>
                   /\ IsPoolCall(k + 1, "burn_asset2_out")
                   /\ IsLpTransfer(k - 1)
                   /\ BurnPairPays(k, Gtxn(last.group, k - 1).asset_amount,
                                   Did(k).pre.lp_circulation)
            /\ IsPoolCall(k, "burn_asset2_out") =>
                   IsPoolCall(k - 1, "burn_asset1_out")

\* an accepted burn of part of the circulation whose two payments are
\* rounded down
C19_Witness ==
    /\ AcceptedBurn
    /\ BurnedLp < Before.lp_circulation
    /\ Did(1).o.sent1 > 0
    /\ Did(2).o.sent2 > Did(1).o.sent1
    /\ MulDivQR(BurnedLp, Before.balance_1, Before.lp_circulation)[2] > 0
    /\ pool.lp_circulation = Before.lp_circulation - BurnedLp

\* the pair at indexes 2 and 3, after a transfer the pair does not read
C19_WitnessLaterIndex ==
    /\ Accepted("burn_asset1_out", 2)
    /\ Accepted("burn_asset2_out", 3)
    /\ Gtxn(last.group, 0).asset_amount # Gtxn(last.group, 1).asset_amount
    /\ pool.lp_circulation
           = Before.lp_circulation - Gtxn(last.group, 1).asset_amount

\* burn calls without their pair, or in the other order, were rejected
C19_WitnessAlone ==
    /\ Rejected("burn_asset1_out", 1)
    /\ Len(last.group) = 2
    /\ pool.lp_circulation > 2

C19_WitnessAsset2Alone ==
    /\ Rejected("burn_asset2_out", 1)
    /\ Len(last.group) = 2
    /\ pool.lp_circulation > 2

C19_WitnessOtherOrder ==
    /\ Rejected("burn_asset2_out", 1)
    /\ Len(last.group) = 3
    /\ pool.lp_circulation > 2

C19_WitnessOtherAsset ==
    /\ Rejected("burn_asset1_out", 1)
    /\ Len(last.group) = 3
    /\ Gtxn(last.group, 0).xfer_asset = pool.asset2_id
    /\ pool.lp_circulation > 2

\* the caller's minimum output of a swap_exact_for
SwapMinimum == Gtxn(last.group, 1).arg1

\* input minus fee is above 0 and the quote is defined
SwapQuoted ==
    /\ PreState.balance_1 > 0 /\ PreState.balance_2 > 0
    /\ SwapNetInput > 0

\* C20: swap_exact_for with input x charges fee = floor(x * swap_fee / 1e6)
\* + 1 and pays output = floor(balance_out * (x - fee) / (balance_in + x -
\* fee)) on the pre-trade balances; it is rejected unless x - fee > 0, the
\* output is above 0 and the output is at least the caller's minimum
C20_SwapExactFor ==
    /\ AcceptedSwapExactFor =>
           /\ Did(1).o.fee
                  = MulDivQR(SwapInput, Before.swap_fee_pct_scaled_var,
                             1000000)[1] + 1
           /\ SwapNetInput = SwapInput - Did(1).o.fee
           /\ SwapNetInput > 0
           /\ SwapOutput = SwapQuote
           /\ SwapOutput > 0
           /\ SwapOutput >= SwapMinimum
           /\ IF SwapInputIsAsset1
              THEN /\ Did(1).o.sent2 = SwapOutput
                   /\ pool.balance_1 + pool.asset1_reserve
                          = Before.balance_1 + Before.asset1_reserve
                            + SwapInput
                   /\ pool.balance_2 = Before.balance_2 - SwapOutput
              ELSE /\ Did(1).o.sent1 = SwapOutput
                   /\ pool.balance_2 + pool.asset2_reserve
                          = Before.balance_2 + Before.asset2_reserve
                            + SwapInput
                   /\ pool.balance_1 = Before.balance_1 - SwapOutput
    /\ (IsSwapExactForGroup /\ ~(SwapNetInput > 0)) => ~last.ok
    /\ (IsSwapExactForGroup /\ SwapQuoted /\ SwapQuote = 0) => ~last.ok
    /\ (IsSwapExactForGroup /\ SwapQuoted /\ SwapQuote < SwapMinimum)
           => ~last.ok

\* a swap of 400 at the rate 2500: 400 * 2500 / 1e6 = 1 exactly and the fee
\* charged is 2
C20_Witness ==
    /\ AcceptedSwapExactFor
    /\ SwapInput = 400
    /\ Did(1).o.fee = 2
    /\ SwapOutput = 569
    /\ Before.balance_1 = 1000
    /\ Before.balance_2 = 2000

\* the output equals the minimum: accepted; one below the minimum: rejected
C20_WitnessAtMinimum ==
    /\ AcceptedSwapExactFor
    /\ SwapMinimum > 0
    /\ SwapOutput = SwapMinimum

C20_WitnessBelowMinimum ==
    /\ IsSwapExactForGroup
    /\ ~last.ok
    /\ SwapQuoted
    /\ SwapQuote > 0
    /\ SwapQuote + 1 = SwapMinimum

\* an input of 1: the fee is 1 and nothing is left to swap
C20_WitnessNoNetInput ==
    /\ IsSwapExactForGroup
    /\ ~last.ok
    /\ pool.lp_circulation > 0
    /\ SwapInput = 1
    /\ SwapNetInput = 0

\* input minus fee above 0 and an output of 0
C20_WitnessZeroOutput ==
    /\ IsSwapExactForGroup
    /\ ~last.ok
    /\ SwapQuoted
    /\ SwapQuote = 0
    /\ SwapMinimum = 0

\* the exact output a swap_for_exact asks for
SwapExact == Gtxn(last.group, 1).arg1

SwapPreBalanceIn ==
    IF SwapInputIsAsset1 THEN PreState.balance_1 ELSE PreState.balance_2
SwapPreBalanceOut ==
    IF SwapInputIsAsset1 THEN PreState.balance_2 ELSE PreState.balance_1

\* the exact output is above 0 and below the balance paid from
SwapExactQuoted ==
    /\ IsSwapForExactGroup
    /\ SwapExact > 0
    /\ SwapExact < SwapPreBalanceOut
    /\ PreState.swap_fee_pct_scaled_var < 1000000

\* required = floor(balance_in * y / (balance_out - y)) + 1
SwapRequired ==
    MulDivQR(SwapPreBalanceIn, SwapExact,
             SwapPreBalanceOut - SwapExact)[1] + 1

\* fee = floor(required * 1e6 / (1e6 - swap_fee)) + 1 - required
SwapRequiredFee ==
    MulDivQR(SwapRequired, 1000000,
             1000000 - PreState.swap_fee_pct_scaled_var)[1]
    + 1 - SwapRequired

\* what the redeem_swap_residual call after the swap sent
SwapRefunded ==
    IF SwapInputIsAsset1 THEN Did(2).o.sent1 ELSE Did(2).o.sent2

\* C21: swap_for_exact requesting y pays exactly y, charges required + fee
\* with required = floor(balance_in * y / (balance_out - y)) + 1 and
\* fee = floor(required * 1e6 / (1e6 - swap_fee)) + 1 - required, is
\* rejected if the input transferred is smaller than that charge, and the
\* redeem_swap_residual call that follows refunds exactly input - charge
C21_SwapForExact ==
    /\ AcceptedSwapForExact =>
           /\ SwapExactQuoted
           /\ SwapOutput = SwapExact
           /\ Did(1).o.fee = SwapRequiredFee
           /\ SwapCharged = SwapRequired + SwapRequiredFee
           /\ SwapInput >= SwapCharged
           /\ IsPoolCall(2, "redeem_swap_residual")
           /\ SwapRefunded = SwapInput - SwapCharged
           /\ Did(2).o.sent1 + Did(2).o.sent2 = SwapRefunded
           /\ IF SwapInputIsAsset1
              THEN /\ Did(1).o.sent2 = SwapExact
                   /\ pool.balance_2 = Before.balance_2 - SwapExact
                   /\ pool.balance_1 + pool.asset1_reserve
                          = Before.balance_1 + Before.asset1_reserve
                            + SwapCharged
              ELSE /\ Did(1).o.sent1 = SwapExact
                   /\ pool.balance_1 = Before.balance_1 - SwapExact
                   /\ pool.balance_2 + pool.asset2_reserve
                          = Before.balance_2 + Before.asset2_reserve
                            + SwapCharged
    /\ (SwapExactQuoted /\ SwapInput < SwapRequired + SwapRequiredFee)
           => ~last.ok

\* a swap_for_exact of 500 for an input of 1003: less than the input was
\* charged and the rest refunded
C21_Witness ==
    /\ AcceptedSwapForExact
    /\ SwapExact = 500
    /\ SwapInput = 1003
    /\ SwapRefunded > 0
    /\ SwapRequiredFee > 1
    /\ SwapCharged + SwapRefunded = SwapInput

\* an input below the charge was rejected
C21_WitnessTooSmall ==
    /\ SwapExactQuoted
    /\ ~last.ok
    /\ SwapInput > 0
    /\ SwapInput < SwapRequired + SwapRequiredFee

\* asset 2 in, asset 1 out
C21_WitnessAsset2In ==
    /\ AcceptedSwapForExact
    /\ ~SwapInputIsAsset1
    /\ Did(1).o.sent1 = SwapExact
    /\ Did(2).o.sent2 = SwapRefunded

\* floor(F * reserve_factor / 1e6) for the fee F of the swap of the last
\* group, at the reserve factor the swap left in the pool
SwapFeeToReserve ==
    MulDivQR(Did(1).o.fee, pool.reserve_factor, 1000000)[1]

\* C22: after a swap with fee F on input asset k, reserve_k has grown by
\* floor(F * reserve_factor / 1e6), balance_k by the input charged minus that
\* amount, the other reserve is unchanged, and the amount moved to the
\* reserve never exceeds F
C22_UpdateReserves ==
    AcceptedSwap =>
        /\ Did(1).o.fee_is_asset1 = Did(1).o.swap_input_is_asset1
        /\ Did(1).o.to_reserve = SwapFeeToReserve
        /\ SwapFeeToReserve <= Did(1).o.fee
        /\ IF Did(1).o.swap_input_is_asset1
           THEN /\ pool.asset1_reserve
                       = Before.asset1_reserve + SwapFeeToReserve
                /\ pool.balance_1
                       = Before.balance_1 + SwapCharged - SwapFeeToReserve
                /\ pool.asset2_reserve = Before.asset2_reserve
           ELSE /\ pool.asset2_reserve
                       = Before.asset2_reserve + SwapFeeToReserve
                /\ pool.balance_2
                       = Before.balance_2 + SwapCharged - SwapFeeToReserve
                /\ pool.asset1_reserve = Before.asset1_reserve

\* a swap whose fee is split: part to the reserve, part left in the balance
C22_Witness ==
    /\ AcceptedSwap
    /\ SwapFeeToReserve > 0
    /\ SwapFeeToReserve < Did(1).o.fee
    /\ pool.reserve_factor = DEFAULT_RESERVE_FACTOR

\* at a reserve factor of 1e6 the whole fee goes to the reserve
C22_WitnessWholeFee ==
    /\ AcceptedSwap
    /\ pool.reserve_factor = 1000000
    /\ Did(1).o.fee > 0
    /\ SwapFeeToReserve = Did(1).o.fee

\* a fee too small to leave anything for the reserve
C22_WitnessNothing ==
    /\ AcceptedSwap
    /\ Did(1).o.fee > 0
    /\ SwapFeeToReserve = 0

\* asset 2 as input: the reserve of asset 2 grew, that of asset 1 did not
C22_WitnessAsset2 ==
    /\ AcceptedSwap
    /\ ~Did(1).o.swap_input_is_asset1
    /\ pool.asset2_reserve > Before.asset2_reserve
    /\ pool.asset1_reserve = Before.asset1_reserve

\* the last group is one ramp_amplification_factor call
IsRampGroup ==
    /\ Len(last.group) = 1
    /\ IsPoolCall(0, "ramp_amplification_factor")

RampFutureA == Gtxn(last.group, 0).arg1
RampFutureTime == Gtxn(last.group, 0).arg2

\* the three conditions of an accepted ramp
RampAllowed ==
    /\ Gtxn(last.group, 0).sender = PreState.admin
    /\ RampFutureTime >= last.time + PreState.param_update_delay
    /\ RampFutureA > 0
    /\ RampFutureA < MAX_AMPLIFICATION_FACTOR

\* the four fields of the ramp
RampFields(st) ==
    <<st.initial_amplification_factor, st.future_amplification_factor,
      st.initial_amplification_factor_time,
      st.future_amplification_factor_time>>

RampRejectedUnlessAllowed ==
    IsRampGroup =>
        /\ ~RampAllowed => (~last.ok /\ RampFields(pool) = RampFields(PreState))
        /\ last.ok =>
               /\ RampAllowed
               /\ pool.future_amplification_factor = RampFutureA
               /\ pool.future_amplification_factor_time = RampFutureTime
               /\ pool.initial_amplification_factor_time = last.time

\* C24: ramp_amplification_factor is rejected, leaving the initial and
\* future amplification factor and both times unchanged, unless the sender
\* is the admin, future_time >= now + param_update_delay and
\* 0 < future_A < MAX_AMPLIFICATION_FACTOR
C24_RampGuards ==
    /\ []RampRejectedUnlessAllowed
    /\ [][(last' # last /\ ~last'.ok)
              => RampFields(pool') = RampFields(pool)]_vars

\* the admin's ramp one second short of the delay was rejected
C24_Witness ==
    /\ IsRampGroup
    /\ ~last.ok
    /\ pool.stable
    /\ pool.initialized
    /\ Gtxn(last.group, 0).sender = pool.admin
    /\ RampFutureA = 200
    /\ RampFutureTime = last.time + pool.param_update_delay - 1

\* future_A = 0 and future_A = MAX_AMPLIFICATION_FACTOR were rejected
C24_WitnessZero ==
    /\ IsRampGroup /\ ~last.ok /\ pool.stable /\ pool.initialized
    /\ Gtxn(last.group, 0).sender = pool.admin
    /\ RampFutureA = 0
    /\ RampFutureTime >= last.time + pool.param_update_delay

C24_WitnessMax ==
    /\ IsRampGroup /\ ~last.ok /\ pool.stable /\ pool.initialized
    /\ Gtxn(last.group, 0).sender = pool.admin
    /\ RampFutureA = MAX_AMPLIFICATION_FACTOR
    /\ RampFutureTime >= last.time + pool.param_update_delay

\* a ramp at exactly now + param_update_delay was accepted
C24_WitnessAccepted ==
    /\ IsRampGroup /\ last.ok
    /\ RampFutureTime = last.time + Before.param_update_delay
    /\ RampFields(pool) # RampFields(Before)

\* a ramp after the delay was raised: now + 5 is no longer enough
C24_WitnessRaisedDelay ==
    /\ IsRampGroup /\ ~last.ok /\ pool.stable /\ pool.initialized
    /\ Gtxn(last.group, 0).sender = pool.admin
    /\ RampFutureA = 200
    /\ RampFutureTime = last.time + DEFAULT_PARAM_UPDATE_DELAY
    /\ pool.param_update_delay > DEFAULT_PARAM_UPDATE_DELAY

\* the latest future_time a ramp of the model asks for is below this
RampHorizon == MaxTime + 10

\* the amplification factor of the pool at latest_timestamp = t
AmpAt(t) == get_amplification_factor(pool, t)

AmpLow ==
    IF pool.initial_amplification_factor < pool.future_amplification_factor
    THEN pool.initial_amplification_factor
    ELSE pool.future_amplification_factor

AmpHigh ==
    IF pool.initial_amplification_factor < pool.future_amplification_factor
    THEN pool.future_amplification_factor
    ELSE pool.initial_amplification_factor

C25_WitnessRampInRamp ==
    /\ pool.stable
    /\ now > pool.initial_amplification_factor_time
    /\ now < pool.future_amplification_factor_time
    /\ pool.future_amplification_factor > pool.initial_amplification_factor
    /\ pool.initial_amplification_factor \notin RampCreatedWith
    /\ pool.initial_amplification_factor
           \notin {a[1] : a \in RampWideInputs}
    /\ AmpAt(now) > pool.initial_amplification_factor

\* a finished ramp
C25_WitnessFinished ==
    /\ pool.stable
    /\ pool.initial_amplification_factor_time > 0
    /\ now >= pool.future_amplification_factor_time
    /\ AmpAt(now) = pool.future_amplification_factor
    /\ pool.future_amplification_factor # pool.initial_amplification_factor

\* the constant-product pool after a first deposit of (1_000_000, 1_000_000)
\* at swap fee 2500
RoundPool(st) ==
    /\ ~st.stable
    /\ st.balance_1 = 1000000
    /\ st.balance_2 = 1000000
    /\ st.lp_circulation = 1000000
    /\ st.swap_fee_pct_scaled_var = 2500

\* the first deposit of the round was accepted
RoundDeposited ==
    /\ AcceptedDeposit
    /\ Before.lp_circulation = 0
    /\ ~Before.stable
    /\ Before.swap_fee_pct_scaled_var = 2500
    /\ DepositedAsset1 = 1000000
    /\ DepositedAsset2 = 1000000

\* the swap_exact_for of 1000 of asset 1 on that pool was accepted
RoundSwapped ==
    /\ AcceptedSwapExactFor
    /\ RoundPool(Before)
    /\ SwapInput = 1000
    /\ Did(1).o.swap_input_is_asset1

\* the reserve skim of the swap's fee of 3
RoundSkim == MulDivQR(3, pool.reserve_factor, 1000000)[1]

\* deposit and swap of the round
RoundDepositAndSwap ==
    /\ RoundDeposited =>
           /\ Did(2).o.sent_lp = 1000000
           /\ RoundPool(pool)
    /\ RoundSwapped =>
           /\ Did(1).o.fee = 3
           /\ SwapCharged - Did(1).o.fee = 997
           /\ Did(1).o.sent2 = 996
           /\ Did(1).o.sent1 = 0
           /\ pool.balance_2 = 999004
           /\ pool.asset1_reserve = Before.asset1_reserve + RoundSkim

\* the next step burns all of the LP
RoundFullBurn ==
    /\ last' # last
    /\ IsBurnGroup'
    /\ BurnedLp' = pool.lp_circulation

\* C27 as stated: from an empty constant-product pool with swap fee 2500, a
\* deposit of (1_000_000, 1_000_000) issues 1_000_000 LP and sets both
\* balances to 1_000_000; a following swap_exact_for of 1000 of asset 1
\* charges fee 3, uses 997 and pays 996 of asset 2; withdrawing all LP
\* afterwards yields 1_000_997 of asset 1 minus the reserve skim and 999_004
\* of asset 2
C27_Original ==
    /\ []RoundDepositAndSwap
    /\ [][(RoundSwapped /\ RoundFullBurn)
              => /\ last'.ok
                 /\ Did(1)'.o.sent1 = 1000997 - RoundSkim
                 /\ Did(2)'.o.sent2 = 999004]_vars

\* C27 amended: the fee stays in balance_1 except for the reserve skim, so
\* the withdrawal of all LP yields 1_001_000 of asset 1 minus the skim
\* floor(3 * reserve_factor / 1e6), and 999_004 of asset 2
C27_RoundTrip ==
    /\ []RoundDepositAndSwap
    /\ [][(RoundSwapped /\ RoundFullBurn)
              => /\ last'.ok
                 /\ Did(1)'.o.sent1 = 1001000 - RoundSkim
                 /\ Did(2)'.o.sent2 = 999004
                 /\ pool'.balance_1 = 0
                 /\ pool'.balance_2 = 0
                 /\ pool'.asset1_reserve = pool.asset1_reserve]_vars

\* all LP withdrawn after deposit and swap, nothing skimmed at the default
\* reserve factor
C27_Witness ==
    /\ AcceptedBurn
    /\ BurnedLp = 1000000
    /\ Before.balance_1 = 1001000
    /\ Before.balance_2 = 999004
    /\ Did(1).o.sent1 = 1001000
    /\ Did(2).o.sent2 = 999004
    /\ pool.reserve_factor = DEFAULT_RESERVE_FACTOR

\* the same at a reserve factor of 1e6: the whole fee of 3 is skimmed
C27_WitnessSkimmed ==
    /\ AcceptedBurn
    /\ BurnedLp = 1000000
    /\ Did(1).o.sent1 = 1000997
    /\ Did(2).o.sent2 = 999004
    /\ pool.asset1_reserve = 3

\* the swap of the round
C27_WitnessSwap ==
    /\ RoundSwapped
    /\ Did(1).o.sent2 = 996

\* the last group holds a call to the pool whose on-completion is not NoOp
HoldsOtherCompletion ==
    \E k \in 0 .. Len(last.group) - 1 :
        /\ Gtxn(last.group, k).type = "appl"
        /\ Gtxn(last.group, k).application_id = "pool"
        /\ Gtxn(last.group, k).on_completion \in OtherCompletions

\* C30: after creation the pool approves only NoOp application calls: a
\* call whose on-completion is DeleteApplication, OptIn, CloseOut or
\* UpdateApplication is rejected for every sender (the admin included),
\* every pool state and every argument list
C30_Original == HoldsOtherCompletion => ~last.ok

\* what the code does: DeleteApplication, OptIn and CloseOut are rejected for
\* every sender; UpdateApplication is rejected unless the pool is
\* initialized and the sender is its admin
C30_CompletionOfCode ==
    (HoldsOtherCompletion /\ last.ok) =>
        /\ Len(last.group) = 1
        /\ Gtxn(last.group, 0).on_completion = "UpdateApplication"
        /\ Gtxn(last.group, 0).sender = Before.admin
        /\ Before.initialized
        /\ Gtxn(last.group, 0).arg0 \in AdminCallNames

\* the admin's remove_reserves call with on-completion UpdateApplication was
\* approved
C30_Witness ==
    /\ last.ok
    /\ Len(last.group) = 1
    /\ Gtxn(last.group, 0).on_completion = "UpdateApplication"
    /\ Gtxn(last.group, 0).arg0 = "remove_reserves"
    /\ Gtxn(last.group, 0).sender = pool.admin
    /\ pool.initialized

\* DeleteApplication sent by the admin was rejected
C30_WitnessDelete ==
    /\ ~last.ok
    /\ Len(last.group) = 1
    /\ Gtxn(last.group, 0).on_completion = "DeleteApplication"
    /\ Gtxn(last.group, 0).arg0 = "remove_reserves"
    /\ Gtxn(last.group, 0).sender = pool.admin
    /\ pool.initialized

\* UpdateApplication sent by another account was rejected
C30_WitnessUserUpdate ==
    /\ ~last.ok
    /\ Len(last.group) = 1
    /\ Gtxn(last.group, 0).on_completion = "UpdateApplication"
    /\ Gtxn(last.group, 0).sender # pool.admin
    /\ pool.initialized

IsFlashLoanGroup ==
    /\ Len(last.group) = 2
    /\ Gtxn(last.group, 0).arg0 = "flash_loan"

IsSwapGroup == IsSwapExactForGroup \/ IsSwapForExactGroup

\* the three values the pool mirrors
Mirrored(r) == <<r.reserve_factor, r.flash_loan_fee, r.max_flash_loan_ratio>>

\* the step submits a group
Submitted == last' # last

\* C28: every successful swap leaves the pool's reserve_factor equal to the
\* manager's current reserve_factor, every successful flash loan leaves
\* reserve_factor, flash_loan_fee and max_flash_loan_ratio equal to the
\* manager's current values, and when the manager's value is absent the
\* operation is rejected with the pool unchanged
C28_ManagerValues ==
    [][Submitted =>
          /\ AcceptedSwap' => pool'.reserve_factor = manager.reserve_factor
          /\ AcceptedFlashLoan' => Mirrored(pool') = Mirrored(manager)
          /\ (~manager.exists /\ (IsSwapGroup' \/ IsFlashLoanGroup'))
                 => (~last'.ok /\ pool' = pool)]_vars

\* a swap after the manager's reserve factor changed: the pool took it over
C28_Witness ==
    /\ AcceptedSwap
    /\ Before.reserve_factor = DEFAULT_RESERVE_FACTOR
    /\ pool.reserve_factor = 300000
    /\ manager.reserve_factor = 300000

\* a flash loan after the manager's flash loan fee changed
C28_WitnessFlashLoan ==
    /\ AcceptedFlashLoan
    /\ Before.flash_loan_fee = INIT_FLASH_LOAN_FEE
    /\ pool.flash_loan_fee = 300000
    /\ Mirrored(pool) = Mirrored(manager)

\* a swap and a flash loan rejected because the value is absent
C28_WitnessAbsentSwap ==
    /\ ~manager.exists
    /\ IsSwapGroup
    /\ ~last.ok
    /\ pool.lp_circulation > 0
    /\ pool.reserve_factor = DEFAULT_RESERVE_FACTOR

C28_WitnessAbsentFlashLoan ==
    /\ ~manager.exists
    /\ IsFlashLoanGroup
    /\ ~last.ok
    /\ pool.lp_circulation > 0

\* a value above the scale at the manager: the swap is rejected
C28_WitnessAboveScale ==
    /\ manager.reserve_factor = 1000001
    /\ IsSwapGroup
    /\ ~last.ok
    /\ pool.reserve_factor = DEFAULT_RESERVE_FACTOR

\* Gtxn[k] of the last group is a NoOp call of this pool named name
IsNoOpPoolCall(k, name) ==
    /\ IsPoolCall(k, name)
    /\ Gtxn(last.group, k).on_completion = "NoOp"

\* Gtxn[k] of the last group transfers a positive amount of asset 1, or of
\* asset 2, to the pool escrow
IsAsset1In(k) ==
    /\ InGroup(last.group, k)
    /\ IF PreState.asset1_id = ALGO_ASSET_ID
       THEN /\ Gtxn(last.group, k).type = "pay"
            /\ Gtxn(last.group, k).receiver = "pool"
            /\ Gtxn(last.group, k).amount > 0
       ELSE /\ Gtxn(last.group, k).type = "axfer"
            /\ Gtxn(last.group, k).xfer_asset = PreState.asset1_id
            /\ Gtxn(last.group, k).asset_receiver = "pool"
            /\ Gtxn(last.group, k).asset_amount > 0

IsAsset2In(k) ==
    /\ InGroup(last.group, k)
    /\ Gtxn(last.group, k).type = "axfer"
    /\ Gtxn(last.group, k).xfer_asset = PreState.asset2_id
    /\ Gtxn(last.group, k).asset_receiver = "pool"
    /\ Gtxn(last.group, k).asset_amount > 0

\* the number of calls named name in the last group
CallCount(name) ==
    Cardinality({k \in 0 .. Len(last.group) - 1 : IsPoolCall(k, name)})

\* C29: a deposit call at index i is accepted only if i-2 is a positive
\* transfer of asset 1 to the pool escrow, i-1 one of asset 2, i+1 this
\* pool's redeem_pool_asset1_residual call and i+2 its
\* redeem_pool_asset2_residual call; a redeem call is accepted only if the
\* call at its fixed negative offset is its triggering operation (the
\* deposit at -1 or -2, swap_for_exact at -1), so each residual is redeemed
\* exactly once per triggering operation and never without one
C29_GroupShape ==
    last.ok =>
        /\ \A k \in 0 .. Len(last.group) - 1 :
            /\ IsPoolCall(k, "pool") =>
                   /\ IsAsset1In(k - 2)
                   /\ IsAsset2In(k - 1)
                   /\ IsNoOpPoolCall(k + 1, "redeem_pool_asset1_residual")
                   /\ IsNoOpPoolCall(k + 2, "redeem_pool_asset2_residual")
            /\ IsPoolCall(k, "redeem_pool_asset1_residual") =>
                   /\ IsNoOpPoolCall(k - 1, "pool")
                   /\ Did(k).o.sent1 = Did(k - 1).o.pool_asset1_residual
                   /\ Did(k).o.sent2 = 0
            /\ IsPoolCall(k, "redeem_pool_asset2_residual") =>
                   /\ IsNoOpPoolCall(k - 2, "pool")
                   /\ Did(k).o.sent2 = Did(k - 2).o.pool_asset2_residual
                   /\ Did(k).o.sent1 = 0
            /\ IsPoolCall(k, "redeem_swap_residual") =>
                   /\ IsNoOpPoolCall(k - 1, "swap_for_exact")
                   /\ Did(k).o.sent1 + Did(k).o.sent2
                          = Did(k - 1).o.residual_amount
            /\ IsPoolCall(k, "swap_for_exact") =>
                   IsNoOpPoolCall(k + 1, "redeem_swap_residual")
        /\ CallCount("redeem_pool_asset1_residual") = CallCount("pool")
        /\ CallCount("redeem_pool_asset2_residual") = CallCount("pool")
        /\ CallCount("redeem_swap_residual") = CallCount("swap_for_exact")

\* the deposit without its redeem calls was rejected
C29_Witness ==
    /\ ~last.ok
    /\ Len(last.group) = 3
    /\ IsPoolCall(2, "pool")
    /\ IsAsset1In(0)
    /\ IsAsset2In(1)
    /\ pool.initialized

\* accepted one index later, with a residual redeemed
C29_WitnessLaterIndex ==
    /\ last.ok
    /\ IsPoolCall(3, "pool")
    /\ Did(4).o.sent1 + Did(5).o.sent2 > 0

\* rejected: the redeem calls in the other order
C29_WitnessOtherOrder ==
    /\ ~last.ok
    /\ Len(last.group) = 5
    /\ IsPoolCall(2, "pool")
    /\ IsPoolCall(3, "redeem_pool_asset2_residual")
    /\ IsPoolCall(4, "redeem_pool_asset1_residual")
    /\ pool.initialized

\* rejected: the transfers in the other order
C29_WitnessTransfersSwapped ==
    /\ ~last.ok
    /\ Len(last.group) = 5
    /\ IsPoolCall(2, "pool")
    /\ IsAsset2In(0)
    /\ IsAsset1In(1)
    /\ pool.initialized

\* rejected: a third redeem call after the deposit's two
C29_WitnessThirdRedeem ==
    /\ ~last.ok
    /\ Len(last.group) = 6
    /\ IsPoolCall(2, "pool")
    /\ IsPoolCall(5, "redeem_pool_asset1_residual")
    /\ pool.initialized

\* rejected: a redeem call with no other call in the group
C29_WitnessRedeemAlone ==
    /\ ~last.ok
    /\ Len(last.group) = 1
    /\ IsPoolCall(0, "redeem_pool_asset1_residual")
    /\ pool.initialized
    /\ pool.lp_circulation > 0

\* rejected: redeem_swap_residual after swap_exact_for, and a second one
\* after swap_for_exact
C29_WitnessAfterExactFor ==
    /\ ~last.ok
    /\ IsPoolCall(1, "swap_exact_for")
    /\ IsPoolCall(2, "redeem_swap_residual")
    /\ pool.lp_circulation > 0

C29_WitnessSecondSwapRedeem ==
    /\ ~last.ok
    /\ Len(last.group) = 4
    /\ IsPoolCall(1, "swap_for_exact")
    /\ IsPoolCall(2, "redeem_swap_residual")
    /\ IsPoolCall(3, "redeem_swap_residual")
    /\ pool.lp_circulation > 0

(***************************************************************************)
(* C26: compute_D and compute_other_asset_output_stable_swap come to a     *)
(* result within 255 passes, without a failed Assert and without an        *)
(* arithmetic failure, for totals in [1000, 2^62] and amplification        *)
(* factors in [1, MAX_AMPLIFICATION_FACTOR).                               *)
(***************************************************************************)
SolverTotalInRange(x) == BigLeq(BigOf(1000), x) /\ BigLeq(x, BigTwoTo(62))

SolverInRange ==
    /\ SolverTotalInRange(calc.input_asset_new_total)
    /\ SolverTotalInRange(calc.input_asset_previous_total)
    /\ SolverTotalInRange(calc.previous_output_asset_total)
    /\ calc.amplification_param >= 1
    /\ calc.amplification_param < MAX_AMPLIFICATION_FACTOR

\* C26 as stated: in that range neither subroutine fails, and neither runs
\* beyond 255 passes
C26_Original ==
    SolverInRange =>
        /\ calc.d.status # "failed"
        /\ calc.o.status # "failed"
        /\ calc.d.i <= 255
        /\ calc.o.i <= 255

\* compute_D(1000, 1000, 1) fails in its first pass, in the subtraction
\* Ann_calc - FIXED_6_SCALE_FACTOR
C26_Witness ==
    /\ SolverInRange
    /\ calc.input_asset_previous_total = BigOf(1000)
    /\ calc.previous_output_asset_total = BigOf(1000)
    /\ calc.amplification_param = 1
    /\ calc.d.status = "failed"
    /\ calc.d.i = 0

\* what the code does: compute_D fails for every factor below 250000 ...
C26_ComputeDBelowQuarter ==
    (calc.amplification_param * 4 < FIXED_6_SCALE_FACTOR
         /\ calc.d.status # "running") => calc.d.status = "failed"

\* ... and from 250000 on it returns, here within 40 passes
C26_ComputeDFromQuarter ==
    (SolverInRange /\ calc.amplification_param * 4 >= FIXED_6_SCALE_FACTOR) =>
        /\ calc.d.status # "failed"
        /\ calc.d.i <= 40

\* compute_D returned and compute_other_asset_output_stable_swap failed in
\* its uint64 arithmetic
C26_WitnessOtherFailed ==
    /\ SolverInRange
    /\ calc.d.status = "returned"
    /\ calc.o.status = "failed"
    /\ calc.o.i < 255

C26_WitnessReturned ==
    /\ SolverInRange
    /\ calc.d.status = "returned"
    /\ calc.d.i > 5
    /\ calc.o.status = "returned"
    /\ calc.o.i > 1

(***************************************************************************)
(* C23: a deposit into a non-empty stable pool issues                      *)
(* floor(lp_circulation * (D1 - D0) / D0) LP tokens, where D0 and D1 are   *)
(* compute_D of the balances before and after adding the adjusted deposit  *)
(* amounts, at the current amplification factor; a deposit into an empty   *)
(* stable pool issues D1.                                                  *)
(***************************************************************************)
StableDeposited == AcceptedDeposit /\ Did(2).pre.stable

\* the amplification factor at the time of the deposit
DepositFactor == get_amplification_factor(Did(2).pre, last.time)

DepositD0 ==
    compute_D(BigOf(Did(2).pre.balance_1), BigOf(Did(2).pre.balance_2),
              DepositFactor)

DepositD1 ==
    compute_D(BigOf(Did(2).pre.balance_1 + Did(2).o.adj1),
              BigOf(Did(2).pre.balance_2 + Did(2).o.adj2),
              DepositFactor)

\* lp = floor(circulation * (D1 - D0) / D0)
IsStableIssuance(lp, circulation, D0, D1) ==
    /\ D0.status = "returned"
    /\ D1.status = "returned"
    /\ BigLeq(D0.D_estimate, D1.D_estimate)
    /\ BigLeq(BigMul(BigOf(lp), D0.D_estimate),
              BigMul(BigOf(circulation),
                     BigSub(D1.D_estimate, D0.D_estimate)))
    /\ BigLess(BigMul(BigOf(circulation),
                      BigSub(D1.D_estimate, D0.D_estimate)),
               BigMul(BigOf(lp + 1), D0.D_estimate))

C23_StableIssuance ==
    StableDeposited =>
        /\ Did(2).post.lp_circulation
               = Did(2).pre.lp_circulation + Did(2).o.sent_lp
        /\ IF pool_is_empty(Did(2).pre)
           THEN /\ DepositD1.status = "returned"
                /\ DepositD1.D_estimate = BigOf(Did(2).o.sent_lp)
           ELSE IsStableIssuance(Did(2).o.sent_lp,
                                 Did(2).pre.lp_circulation,
                                 DepositD0, DepositD1)

\* a deposit into a non-empty pool whose invariant is not its circulation
C23_Witness ==
    /\ StableDeposited
    /\ ~pool_is_empty(Did(2).pre)
    /\ DepositD0.D_estimate # BigOf(Did(2).pre.lp_circulation)
    /\ Did(2).o.sent_lp > 0
    /\ BigOf(Did(2).o.sent_lp)
           # BigSub(DepositD1.D_estimate, DepositD0.D_estimate)

\* a first deposit of unequal amounts: D1 is below their sum
C23_WitnessEmpty ==
    /\ StableDeposited
    /\ pool_is_empty(Did(2).pre)
    /\ Did(2).o.sent_lp < Did(2).o.adj1 + Did(2).o.adj2
    /\ Did(2).o.sent_lp > 0

\* a deposit while the amplification factor ramps
C23_WitnessRamping ==
    /\ StableDeposited
    /\ ~pool_is_empty(Did(2).pre)
    /\ DepositFactor # Did(2).pre.initial_amplification_factor
    /\ DepositFactor # Did(2).pre.future_amplification_factor

(***************************************************************************)
(* calculate_integer_wrapped_value at full uint64 width                    *)
(***************************************************************************)
\* the returned branch with the unit left out
calculate_integer_wrapped_value_no_unit(current_value, addend) ==
    IF BigLess(MAX_INT_U64, current_value)
    THEN [ok |-> FALSE, value |-> <<>>]
    ELSE IF BigLess(BigSub(MAX_INT_U64, current_value), addend)
    THEN [ok |-> TRUE,
          value |-> BigSub(addend, BigSub(MAX_INT_U64, current_value))]
    ELSE [ok |-> FitsU64(BigAdd(current_value, addend)),
          value |-> BigAdd(current_value, addend)]

\* calculate_integer_wrapped_value: ok is FALSE when one of its uint64
\* operations fails (a subtraction below 0, a sum above 2^64 - 1)
calculate_integer_wrapped_value(current_value, addend) ==
    IF BigLess(MAX_INT_U64, current_value)
    THEN [ok |-> FALSE, value |-> <<>>]
    ELSE IF BigLess(BigSub(MAX_INT_U64, current_value), addend)
    THEN IF BigLess(BigSub(addend, BigSub(MAX_INT_U64, current_value)),
                    <<1>>)
         THEN [ok |-> FALSE, value |-> <<>>]
         ELSE [ok |-> TRUE,
               value |-> BigSub(BigSub(addend,
                                       BigSub(MAX_INT_U64, current_value)),
                                <<1>>)]
    ELSE [ok |-> FitsU64(BigAdd(current_value, addend)),
          value |-> BigAdd(current_value, addend)]

\* uint64 values from 0 to 2^64 - 1
WrapValues ==
    {<<>>, <<1>>, BigOf(1000000), BigTwoTo(63),
     BigSub(MAX_INT_U64, <<1>>), MAX_INT_U64}

WrapInit ==
    /\ pool = CreatedPool(ALGO_ASSET_ID)
    /\ manager = [exists |-> TRUE,
                  reserve_factor |-> DEFAULT_RESERVE_FACTOR,
                  flash_loan_fee |-> INIT_FLASH_LOAN_FEE,
                  max_flash_loan_ratio |-> INIT_MAX_FLASH_LOAN_RATIO]
    /\ now = 1
    /\ last = NoGroup
    /\ sched = [time |-> 0, delay |-> 0, fee |-> 0]
    /\ nops = 0
    /\ nadm = 0
    /\ nmgr = 0
    /\ \E x \in WrapValues, y \in WrapValues, z \in WrapValues :
           calc = [x |-> x, y |-> y, z |-> z, n |-> 0,
                   sum |-> [ok |-> TRUE, value |-> x]]

\* the accumulator x takes the addend y
WrapFirst ==
    /\ calc.n = 0
    /\ calc' = [calc EXCEPT
                   !.n = 1,
                   !.sum = calculate_integer_wrapped_value(calc.x, calc.y)]
    /\ UNCHANGED <<pool, manager, now, last, sched, nops, nadm, nmgr>>

\* the accumulator takes the addend z
WrapSecond ==
    /\ calc.n = 1
    /\ calc.sum.ok
    /\ calc' = [calc EXCEPT
                   !.n = 2,
                   !.sum = calculate_integer_wrapped_value(calc.sum.value,
                                                           calc.z)]
    /\ UNCHANGED <<pool, manager, now, last, sched, nops, nadm, nmgr>>

WrapNext == WrapFirst \/ WrapSecond

WrapSpec == WrapInit /\ [][WrapNext]_vars

(***************************************************************************)
(* C32: calculate_integer_wrapped_value(c, a) is (c + a) mod 2^64 for all  *)
(* 64-bit c and a: it never fails, its result is at most 2^64 - 1, and     *)
(* applied twice it gives (x + y + z) mod 2^64.                            *)
(***************************************************************************)
\* s mod 2^64
ModTwoTo64(s) ==
    BigSub(s, BigMul(BigDiv(s, BigTwoTo(64)), BigTwoTo(64)))

C32_WrappedSum ==
    /\ calc.sum.ok
    /\ FitsU64(calc.sum.value)
    /\ calc.n = 1 => calc.sum.value = ModTwoTo64(BigAdd(calc.x, calc.y))
    /\ calc.n = 2 =>
           calc.sum.value
               = ModTwoTo64(BigAdd(BigAdd(calc.x, calc.y), calc.z))

\* both additions pass 2^64 - 1
C32_Witness ==
    /\ calc.n = 2
    /\ BigLess(calc.sum.value, calc.z)
    /\ BigLess(ModTwoTo64(BigAdd(calc.x, calc.y)), calc.x)
    /\ calc.sum.value # <<>>

\* the sum is exactly 2^64: the result is 0
C32_WitnessZero ==
    /\ calc.n = 1
    /\ calc.sum.value = <<>>
    /\ calc.x # <<>>

(***************************************************************************)
(* The price and volume accumulators of a swap, at full uint64 width       *)
(***************************************************************************)
\* the accumulators after on_initialize_pool
NoOracle ==
    [ok |-> TRUE, time_delta_store |-> <<>>,
     asset1_to_asset2_price_store |-> <<>>,
     asset2_to_asset1_price_store |-> <<>>,
     cumsum_time_weighted_asset1_to_asset2_price |-> <<>>,
     cumsum_time_weighted_asset2_to_asset1_price |-> <<>>,
     cumsum_volume_asset1 |-> <<>>, cumsum_volume_asset2 |-> <<>>,
     cumsum_volume_weighted_asset1_to_asset2_price |-> <<>>,
     cumsum_volume_weighted_asset2_to_asset1_price |-> <<>>]

\* If(MAX_INT_U64 / divisor > other,
\*    cumsum.put(calculate_integer_wrapped_value(cumsum, divisor * other))):
\* the division fails on a zero divisor, the product is evaluated only
\* inside the If
cumsum_put(cumsum, divisor, other) ==
    IF divisor = <<>> THEN [ok |-> FALSE, value |-> cumsum]
    ELSE IF BigLess(other, BigDiv(MAX_INT_U64, divisor))
    THEN [ok |-> FitsU64(BigMul(divisor, other))
                 /\ calculate_integer_wrapped_value(
                        cumsum, BigMul(divisor, other)).ok,
          value |-> calculate_integer_wrapped_value(
                        cumsum, BigMul(divisor, other)).value]
    ELSE [ok |-> TRUE, value |-> cumsum]

\* WideRatio([a, FIXED_9_SCALE_FACTOR], [b]) of two balances
price_calc(a, b) ==
    IF b = 0 THEN [ok |-> FALSE, value |-> <<>>]
    ELSE [ok |-> FitsU64(BigDiv(BigMul(BigOf(a),
                                       BigOf(FIXED_9_SCALE_FACTOR)),
                                BigOf(b))),
          value |-> BigDiv(BigMul(BigOf(a), BigOf(FIXED_9_SCALE_FACTOR)),
                           BigOf(b))]

\* the two guarded puts of save_latest_cumsum_time_weighted_price
time_weighted_put(orc, put12, put21) ==
    [orc EXCEPT
        !.ok = put12.ok /\ put21.ok,
        !.cumsum_time_weighted_asset1_to_asset2_price = put12.value,
        !.cumsum_time_weighted_asset2_to_asset1_price = put21.value]

\* save_latest_cumsum_time_weighted_price from the stored prices on
time_weighted_prices(orc, time_delta, price12, price21) ==
    IF ~(price12.ok /\ price21.ok) THEN [orc EXCEPT !.ok = FALSE]
    ELSE time_weighted_put(
             [orc EXCEPT !.time_delta_store = time_delta,
                         !.asset1_to_asset2_price_store = price12.value,
                         !.asset2_to_asset1_price_store = price21.value],
             cumsum_put(orc.cumsum_time_weighted_asset1_to_asset2_price,
                        price12.value, time_delta),
             cumsum_put(orc.cumsum_time_weighted_asset2_to_asset1_price,
                        price21.value, time_delta))

\* save_latest_cumsum_time_weighted_price on the pool state st at time
\* (latest_time itself is a field of the pool record, put by on_swap)
save_latest_cumsum_time_weighted_price(orc, st, time) ==
    IF time < st.latest_time THEN [orc EXCEPT !.ok = FALSE]
    ELSE CHOOSE res \in
             {time_weighted_prices(orc, BigOf(time - st.latest_time),
                                   p[1], p[2]) :
                  p \in {<<price_calc(st.balance_2, st.balance_1),
                           price_calc(st.balance_1, st.balance_2)>>}} :
             TRUE

\* the four puts of save_latest_cumsum_volume
volume_put(orc, volume1, volume2, put12, put21) ==
    [orc EXCEPT
        !.ok = volume1.ok /\ volume2.ok /\ put12.ok /\ put21.ok,
        !.cumsum_volume_asset1 = volume1.value,
        !.cumsum_volume_asset2 = volume2.value,
        !.cumsum_volume_weighted_asset1_to_asset2_price = put12.value,
        !.cumsum_volume_weighted_asset2_to_asset1_price = put21.value]

save_latest_cumsum_volume(orc, asset1_volume, asset2_volume) ==
    IF ~orc.ok THEN orc
    ELSE volume_put(
             orc,
             calculate_integer_wrapped_value(orc.cumsum_volume_asset1,
                                             asset1_volume),
             calculate_integer_wrapped_value(orc.cumsum_volume_asset2,
                                             asset2_volume),
             cumsum_put(orc.cumsum_volume_weighted_asset1_to_asset2_price,
                        asset2_volume, orc.asset1_to_asset2_price_store),
             cumsum_put(orc.cumsum_volume_weighted_asset2_to_asset1_price,
                        asset1_volume, orc.asset2_to_asset1_price_store))

\* the volumes on_swap hands to save_latest_cumsum_volume: the input
\* without its fee and the output (o is what the swap call did)
asset1_volume_of(o) ==
    IF o.swap_input_is_asset1 THEN o.in1 - o.fee ELSE o.sent1

asset2_volume_of(o) ==
    IF o.swap_input_is_asset1 THEN o.sent2 ELSE o.in2 - o.fee

\* the accumulators after the swap call whose record is call
on_swap_cumsum(orc, call, time) ==
    save_latest_cumsum_volume(
        save_latest_cumsum_time_weighted_price(orc, call.pre, time),
        BigOf(asset1_volume_of(call.o)), BigOf(asset2_volume_of(call.o)))

\* first deposits: a price of 10^15 one way, and of 10^9 both ways
OracleDeposits == {<<1000, 1000000000>>, <<1000000, 1000000>>}

\* seconds between two blocks: with a price of 10^15 the product passes
\* 2^64 - 1 from 18447 seconds on
OracleDelays == {18445, 18446, 18447}

\* <<swap_for_exact, input is asset1, input amount, minimum or exact
\*   output>> of the swaps
OracleSwaps ==
    {<<FALSE, TRUE, 1003, 0>>, <<FALSE, FALSE, 1000000, 0>>,
     <<TRUE, TRUE, 1003, 18000>>, <<TRUE, FALSE, 1003, 500>>}

OracleInit ==
    /\ pool = CreatedPool(ALGO_ASSET_ID)
    /\ manager = [exists |-> TRUE,
                  reserve_factor |-> DEFAULT_RESERVE_FACTOR,
                  flash_loan_fee |-> INIT_FLASH_LOAN_FEE,
                  max_flash_loan_ratio |-> INIT_MAX_FLASH_LOAN_RATIO]
    /\ now = 1
    /\ last = NoGroup
    /\ sched = [time |-> 0, delay |-> 0, fee |-> 0]
    /\ nops = 0
    /\ nadm = 0
    /\ nmgr = 0
    /\ calc = [pre |-> NoOracle, o |-> NoOracle, failed |-> FALSE]

OracleDeposit ==
    \E a \in OracleDeposits :
        /\ pool_is_empty(pool)
        /\ SubmitStep(DepositGroup(pool, a[1], a[2], 10000))

\* a swap group: the pool call and its accumulators commit together; failed
\* records a group that only the accumulators' arithmetic rejects
OracleSwap ==
    \E a \in OracleSwaps :
        \E g \in {IF a[1] THEN SwapForExactGroup(pool, a[2], a[3], a[4])
                  ELSE SwapExactForGroup(pool, a[2], a[3], a[4])} :
            /\ last.ok
            /\ nops < MaxRoundOps
            /\ \E r \in {RunGroup(pool, g, manager, now)} :
                /\ r.modelled
                /\ \E orc \in {IF r.ok
                               THEN on_swap_cumsum(calc.o, r.calls[2], now)
                               ELSE calc.o} :
                    /\ pool' = IF r.ok /\ orc.ok THEN r.st ELSE pool
                    /\ last' = [group |-> g, ok |-> r.ok /\ orc.ok,
                                calls |-> r.calls, time |-> now]
                    /\ calc' = IF r.ok /\ orc.ok
                               THEN [pre |-> calc.o, o |-> orc,
                                     failed |-> FALSE]
                               ELSE [calc EXCEPT !.failed = r.ok]
            /\ nops' = nops + 1
            /\ UNCHANGED <<manager, now, sched, nadm, nmgr>>

\* the next block, once per accepted group
OracleTick ==
    \E d \in OracleDelays :
        /\ last.ok
        /\ ~pool_is_empty(pool)
        /\ now = pool.latest_time
        /\ now' = now + d
        /\ UNCHANGED <<pool, manager, last, sched, nops, nadm, nmgr, calc>>

OracleNext ==
    \/ InitializePool
    \/ OracleDeposit
    \/ OracleSwap
    \/ OracleTick

OracleSpec == OracleInit /\ [][OracleNext]_vars

(***************************************************************************)
(* C31: an accepted swap sets latest_time to the current time and advances *)
(* each time-weighted accumulator, modulo 2^64, by the price before the    *)
(* trade times the seconds since the previous latest_time, and each        *)
(* volume-weighted accumulator by the trade volume times that price; an    *)
(* accumulator whose product does not fit 64 bits is left unchanged, and   *)
(* no swap is rejected because of such a product.                          *)
(***************************************************************************)
\* the 1e9-scaled prices before the trade
PriceBefore12 ==
    BigDiv(BigMul(BigOf(Before.balance_2), BigOf(FIXED_9_SCALE_FACTOR)),
           BigOf(Before.balance_1))

PriceBefore21 ==
    BigDiv(BigMul(BigOf(Before.balance_1), BigOf(FIXED_9_SCALE_FACTOR)),
           BigOf(Before.balance_2))

\* seconds since the previous latest_time
Elapsed == BigOf(last.time - Before.latest_time)

Volume1 == BigOf(asset1_volume_of(Did(1).o))
Volume2 == BigOf(asset2_volume_of(Did(1).o))

\* post is pre advanced by x * y modulo 2^64
IsAdvanced(pre, post, x, y) == post = ModTwoTo64(BigAdd(pre, BigMul(x, y)))

\* the accumulator is advanced when the product fits 64 bits, and is left
\* unchanged when it does not
AdvancedIfFits(pre, post, x, y) ==
    IF FitsU64(BigMul(x, y)) THEN IsAdvanced(pre, post, x, y)
    ELSE post = pre

\* the accumulator is advanced when floor((2^64 - 1) / x) > y, and is left
\* unchanged otherwise
AdvancedIfBelow(pre, post, x, y) ==
    IF BigLess(y, BigDiv(MAX_INT_U64, x)) THEN IsAdvanced(pre, post, x, y)
    ELSE post = pre

\* latest_time, the two volume accumulators, and no swap lost to the
\* accumulators' arithmetic
C31_TimeAndVolume ==
    /\ ~calc.failed
    /\ AcceptedSwap =>
           /\ calc.o.ok
           /\ pool.latest_time = last.time
           /\ calc.o.cumsum_volume_asset1
                  = ModTwoTo64(BigAdd(calc.pre.cumsum_volume_asset1,
                                      Volume1))
           /\ calc.o.cumsum_volume_asset2
                  = ModTwoTo64(BigAdd(calc.pre.cumsum_volume_asset2,
                                      Volume2))

\* C31 as stated: every accumulator whose product fits is advanced
C31_Original ==
    /\ C31_TimeAndVolume
    /\ AcceptedSwap =>
           /\ AdvancedIfFits(
                  calc.pre.cumsum_time_weighted_asset1_to_asset2_price,
                  calc.o.cumsum_time_weighted_asset1_to_asset2_price,
                  PriceBefore12, Elapsed)
           /\ AdvancedIfFits(
                  calc.pre.cumsum_time_weighted_asset2_to_asset1_price,
                  calc.o.cumsum_time_weighted_asset2_to_asset1_price,
                  PriceBefore21, Elapsed)
           /\ AdvancedIfFits(
                  calc.pre.cumsum_volume_weighted_asset1_to_asset2_price,
                  calc.o.cumsum_volume_weighted_asset1_to_asset2_price,
                  Volume2, PriceBefore12)
           /\ AdvancedIfFits(
                  calc.pre.cumsum_volume_weighted_asset2_to_asset1_price,
                  calc.o.cumsum_volume_weighted_asset2_to_asset1_price,
                  Volume1, PriceBefore21)

\* C31, amended: an accumulator is advanced exactly when
\* floor((2^64 - 1) / price) > seconds, resp. floor((2^64 - 1) / volume) >
\* price; otherwise, and so whenever the product does not fit, it is left
\* unchanged
C31_Accumulators ==
    /\ C31_TimeAndVolume
    /\ AcceptedSwap =>
           /\ AdvancedIfBelow(
                  calc.pre.cumsum_time_weighted_asset1_to_asset2_price,
                  calc.o.cumsum_time_weighted_asset1_to_asset2_price,
                  PriceBefore12, Elapsed)
           /\ AdvancedIfBelow(
                  calc.pre.cumsum_time_weighted_asset2_to_asset1_price,
                  calc.o.cumsum_time_weighted_asset2_to_asset1_price,
                  PriceBefore21, Elapsed)
           /\ AdvancedIfBelow(
                  calc.pre.cumsum_volume_weighted_asset1_to_asset2_price,
                  calc.o.cumsum_volume_weighted_asset1_to_asset2_price,
                  Volume2, PriceBefore12)
           /\ AdvancedIfBelow(
                  calc.pre.cumsum_volume_weighted_asset2_to_asset1_price,
                  calc.o.cumsum_volume_weighted_asset2_to_asset1_price,
                  Volume1, PriceBefore21)
           /\ ~FitsU64(BigMul(PriceBefore12, Elapsed)) =>
                  calc.o.cumsum_time_weighted_asset1_to_asset2_price
                      = calc.pre.cumsum_time_weighted_asset1_to_asset2_price
           /\ ~FitsU64(BigMul(Volume2, PriceBefore12)) =>
                  calc.o.cumsum_volume_weighted_asset1_to_asset2_price
                      = calc.pre.cumsum_volume_weighted_asset1_to_asset2_price

\* the product of price and seconds fits 64 bits and the accumulator is
\* left unchanged
C31_Witness ==
    /\ AcceptedSwap
    /\ FitsU64(BigMul(PriceBefore12, Elapsed))
    /\ Elapsed # <<>>
    /\ calc.o.cumsum_time_weighted_asset1_to_asset2_price
           = calc.pre.cumsum_time_weighted_asset1_to_asset2_price

\* an accepted swap whose product of price and seconds does not fit
C31_WitnessSkipped ==
    /\ AcceptedSwap
    /\ ~FitsU64(BigMul(PriceBefore12, Elapsed))
    /\ pool # Before

\* an accepted swap whose product of volume and price does not fit, the
\* other direction's being added
C31_WitnessVolumeSkipped ==
    /\ AcceptedSwap
    /\ ~FitsU64(BigMul(Volume2, PriceBefore12))
    /\ calc.o.cumsum_volume_weighted_asset2_to_asset1_price
           # calc.pre.cumsum_volume_weighted_asset2_to_asset1_price

\* a time-weighted accumulator passes 2^64 - 1 and wraps
C31_WitnessWrapped ==
    /\ AcceptedSwap
    /\ BigLess(calc.o.cumsum_time_weighted_asset1_to_asset2_price,
               calc.pre.cumsum_time_weighted_asset1_to_asset2_price)

\* all four accumulators advance in one swap
C31_WitnessAdvanced ==
    /\ AcceptedSwap
    /\ BigLess(calc.pre.cumsum_time_weighted_asset1_to_asset2_price,
               calc.o.cumsum_time_weighted_asset1_to_asset2_price)
    /\ BigLess(calc.pre.cumsum_time_weighted_asset2_to_asset1_price,
               calc.o.cumsum_time_weighted_asset2_to_asset1_price)
    /\ BigLess(calc.pre.cumsum_volume_weighted_asset1_to_asset2_price,
               calc.o.cumsum_volume_weighted_asset1_to_asset2_price)
    /\ BigLess(calc.pre.cumsum_volume_weighted_asset2_to_asset1_price,
               calc.o.cumsum_volume_weighted_asset2_to_asset1_price)

(***************************************************************************)
(* C34: an accepted ramp_amplification_factor at time t leaves the         *)
(* amplification factor at time t as it was before the call, and the       *)
(* factor does not arrive at future_A earlier than param_update_delay      *)
(* seconds after the call.                                                 *)
(***************************************************************************)
AcceptedRamp == Accepted("ramp_amplification_factor", 0)

\* the factor at the time of the call, before and after it
RampFactorBefore == get_amplification_factor(Did(0).pre, last.time)
RampFactorAfter == get_amplification_factor(Did(0).post, last.time)

\* the seconds from the call on that are less than param_update_delay
\* after it
RampDelaySeconds ==
    last.time .. (last.time + Did(0).pre.param_update_delay - 1)

C34_RampContinuous ==
    AcceptedRamp =>
        /\ RampFactorBefore >= 0
        /\ RampFactorAfter = RampFactorBefore
        /\ \A u \in RampDelaySeconds :
               get_amplification_factor(Did(0).post, u)
                   = Did(0).post.future_amplification_factor
               => RampFactorBefore = Did(0).post.future_amplification_factor
        /\ get_amplification_factor(
               Did(0).post, Did(0).post.future_amplification_factor_time)
               = Did(0).post.future_amplification_factor
        /\ Did(0).post.future_amplification_factor_time
               >= last.time + Did(0).pre.param_update_delay

\* a ramp called while an earlier ramp is under way, to another factor than
\* the current one; the clock has since passed the call
C34_Witness ==
    /\ AcceptedRamp
    /\ last.time < Did(0).pre.future_amplification_factor_time
    /\ last.time > Did(0).pre.initial_amplification_factor_time
    /\ RampFactorBefore # Did(0).pre.initial_amplification_factor
    /\ RampFactorBefore # Did(0).pre.future_amplification_factor
    /\ RampFactorBefore # Did(0).post.future_amplification_factor
    /\ now > last.time
    /\ get_amplification_factor(pool, now) # RampFactorBefore

(***************************************************************************)
(* A stable pool created with any amplification factor, under ramps        *)
(***************************************************************************)
\* application_args[2] of the creation: on_creation stores it unchecked
FactorCreatedWith == {0, 1, 100, 399999999, 400000000}

FactorInit ==
    /\ \E A \in FactorCreatedWith :
           /\ pool = CreatedStablePool(ALGO_ASSET_ID, A)
           /\ calc = [created |-> A]
    /\ manager = [exists |-> TRUE,
                  reserve_factor |-> DEFAULT_RESERVE_FACTOR,
                  flash_loan_fee |-> INIT_FLASH_LOAN_FEE,
                  max_flash_loan_ratio |-> INIT_MAX_FLASH_LOAN_RATIO]
    /\ now = 1
    /\ last = NoGroup
    /\ sched = [time |-> 0, delay |-> 0, fee |-> 0]
    /\ nops = 0
    /\ nadm = 0
    /\ nmgr = 0

FactorSpec == FactorInit /\ [][RampNext]_vars

(***************************************************************************)
(* C39: in every reachable state of an initialized stable pool the         *)
(* amplification factor that get_amplification_factor returns is greater   *)
(* than 0 and less than MAX_AMPLIFICATION_FACTOR, whatever the pool was    *)
(* created with and whatever ramps were applied.                           *)
(***************************************************************************)
FactorInRange(A) == A > 0 /\ A < MAX_AMPLIFICATION_FACTOR

\* C39 as stated
C39_Original ==
    pool.initialized => FactorInRange(get_amplification_factor(pool, now))

\* an initialized pool whose factor is 0, before any ramp
C39_Witness ==
    /\ pool.initialized
    /\ get_amplification_factor(pool, now) = 0
    /\ pool.initial_amplification_factor_time = 0

\* an initialized pool whose factor is MAX_AMPLIFICATION_FACTOR while a ramp
\* is under way
C39_WitnessMax ==
    /\ pool.initialized
    /\ get_amplification_factor(pool, now) = MAX_AMPLIFICATION_FACTOR
    /\ pool.initial_amplification_factor_time > 0

\* the factor is in the range when the pool was created with a factor in
\* the range, and in any case from the end of the first ramp on; it is
\* never lost to a failure of the interpolation
C39_RangeKept ==
    pool.initialized =>
        /\ get_amplification_factor(pool, now) >= 0
        /\ FactorInRange(calc.created) =>
               FactorInRange(get_amplification_factor(pool, now))
        /\ (pool.initial_amplification_factor_time > 0
            /\ now >= pool.future_amplification_factor_time) =>
               FactorInRange(get_amplification_factor(pool, now))

\* a ramp between the ends of the range, half way
C39_WitnessKept ==
    /\ pool.initialized
    /\ FactorInRange(calc.created)
    /\ pool.initial_amplification_factor = 399999999
    /\ pool.future_amplification_factor = 1
    /\ now > pool.initial_amplification_factor_time + 2
    /\ now < pool.future_amplification_factor_time

(***************************************************************************)
(* C40: in every reachable state of an initialized pool                    *)
(* 0 < swap_fee_pct_scaled < 1_000_000, so that swap_for_exact never       *)
(* divides by 0; update_swap_fee is not accepted before a                  *)
(* schedule_swap_fee_update has been accepted, and update_swap_fee         *)
(* repeated without a new schedule leaves the fee unchanged.               *)
(***************************************************************************)
FeeInRange(st) ==
    /\ st.swap_fee_pct_scaled_var > 0
    /\ st.swap_fee_pct_scaled_var < FIXED_6_SCALE_FACTOR

\* this step submits a group that is accepted and is an update_swap_fee
UpdateAccepted ==
    /\ last' # last
    /\ last'.ok
    /\ Len(last'.group) = 1
    /\ Gtxn(last'.group, 0).arg0 = "update_swap_fee"

\* an accepted update_swap_fee follows an accepted schedule and takes the
\* fee of the latest one; if the group before it was an accepted
\* update_swap_fee too, the fee stays
C40_UpdateStep ==
    UpdateAccepted =>
        /\ sched.time > 0
        /\ pool.swap_fee_update_time > 0
        /\ pool'.swap_fee_pct_scaled_var = sched.fee
        /\ Accepted("update_swap_fee", 0) =>
               pool'.swap_fee_pct_scaled_var = pool.swap_fee_pct_scaled_var

C40_SwapFee ==
    /\ [](pool.initialized =>
              /\ FeeInRange(pool)
              /\ FIXED_6_SCALE_FACTOR - pool.swap_fee_pct_scaled_var > 0)
    /\ [][C40_UpdateStep]_vars

\* update_swap_fee accepted while the active fee already is the scheduled
\* fee, which is not the fee of the initialization
C40_Witness ==
    /\ Accepted("update_swap_fee", 0)
    /\ Did(0).pre.swap_fee_pct_scaled_var
           = Did(0).pre.next_swap_fee_pct_scaled_var
    /\ pool.swap_fee_pct_scaled_var # DEFAULT_SWAP_FEE_PCT_SCALED
    /\ pool.swap_fee_pct_scaled_var = sched.fee

\* update_swap_fee rejected on an initialized pool with no schedule
C40_WitnessUnscheduled ==
    /\ Rejected("update_swap_fee", 0)
    /\ Gtxn(last.group, 0).sender = pool.admin
    /\ pool.initialized
    /\ sched.time = 0
    /\ now > 1

(***************************************************************************)
(* Deposits at the pool ratio and off it, with slippage arguments from 0   *)
(***************************************************************************)
\* <<asset1 amount, asset2 amount>> of the deposits
SlippageAmounts ==
    {<<1000000, 1000000>>, <<2000, 2000>>, <<2000, 1999>>,
     <<1000000, 1000100>>, <<1000, 2000>>}

\* pool_slippage_pct_scaled of the deposits
SlippageArguments == {0, 1, 100, 1000000, 1000001}

SlippageDeposit ==
    \E a \in SlippageAmounts, s \in SlippageArguments :
        SubmitStep(DepositGroup(pool, a[1], a[2], s))

\* a deposit of one thousandth of the pool's two balances
SlippageDepositBalances ==
    \E s \in SlippageArguments :
        /\ ~pool_is_empty(pool)
        /\ SubmitStep(DepositGroup(pool, pool.balance_1 \div 1000,
                                   pool.balance_2 \div 1000, s))

SlippageSwap == SubmitStep(SwapExactForGroup(pool, TRUE, 50000, 0))

SlippageNext ==
    \/ InitializePool
    \/ SlippageDeposit
    \/ SlippageDepositBalances
    \/ SlippageSwap

SlippageSpec == Init /\ [][SlippageNext]_vars

(***************************************************************************)
(* C35: a deposit into a non-empty pool is accepted only if                *)
(* 1_000_000 - s < floor(pool_ratio * 1_000_000 / incoming_ratio)          *)
(* < 1_000_000 + s, with s the slippage argument and the two ratios        *)
(* floor(balance_1 * 1e9 / balance_2) and floor(a1 * 1e9 / a2); a deposit  *)
(* whose amounts match the pool ratio exactly is accepted for every        *)
(* slippage argument s >= 0.                                               *)
(***************************************************************************)
\* the last group is a deposit into a non-empty pool, accepted or not
DepositSubmitted ==
    /\ Len(last.group) = 5
    /\ Gtxn(last.group, 2).type = "appl"
    /\ Gtxn(last.group, 2).arg0 = "pool"

\* the pool state the deposit met (a rejected group leaves the pool as it
\* was)
DepositMet == IF last.ok THEN Before ELSE pool

DepositAmount1 == swap_input_amount(Gtxn(last.group, 0))
DepositAmount2 == swap_input_amount(Gtxn(last.group, 1))
DepositSlippage == Gtxn(last.group, 2).arg1

DepositPoolRatio ==
    WideRatio(DepositMet.balance_1, FIXED_9_SCALE_FACTOR,
              DepositMet.balance_2)

DepositIncomingRatio ==
    WideRatio(DepositAmount1, FIXED_9_SCALE_FACTOR, DepositAmount2)

DepositRatioSlippage ==
    WideRatio(DepositPoolRatio, FIXED_6_SCALE_FACTOR, DepositIncomingRatio)

\* an accepted deposit into a non-empty pool is inside the window
SlippageWindow ==
    (DepositSubmitted /\ last.ok /\ ~pool_is_empty(DepositMet)) =>
        /\ DepositSlippage =< FIXED_6_SCALE_FACTOR
        /\ FIXED_6_SCALE_FACTOR - DepositSlippage < DepositRatioSlippage
        /\ DepositRatioSlippage < FIXED_6_SCALE_FACTOR + DepositSlippage

DepositAtPoolRatio ==
    /\ DepositSubmitted
    /\ ~pool_is_empty(DepositMet)
    /\ DepositIncomingRatio = DepositPoolRatio

\* C35 as stated
C35_Original ==
    /\ SlippageWindow
    /\ (DepositAtPoolRatio /\ DepositSlippage >= 0) => last.ok

\* C35, amended: at the pool ratio the deposit passes the slippage test,
\* unadjusted, for every s from 1 to 1_000_000, and is rejected for s = 0
\* and for s > 1_000_000
C35_SlippageWindow ==
    /\ SlippageWindow
    /\ DepositAtPoolRatio =>
           IF DepositSlippage >= 1 /\ DepositSlippage =< FIXED_6_SCALE_FACTOR
           THEN adjust_pool_input_amounts(
                    DepositMet, DepositAmount1, DepositAmount2,
                    DepositSlippage)
                    = Adjusted(DepositAmount1, DepositAmount2, 0, 0)
           ELSE ~last.ok

\* a deposit at the pool ratio with s = 0, rejected
C35_Witness ==
    /\ DepositAtPoolRatio
    /\ DepositSlippage = 0
    /\ ~last.ok

\* a deposit at the pool ratio with s = 1, accepted, into a pool whose
\* balances differ
C35_WitnessAccepted ==
    /\ DepositAtPoolRatio
    /\ DepositSlippage = 1
    /\ last.ok
    /\ Before.balance_1 # Before.balance_2

\* a deposit off the pool ratio, accepted with s = 100 and adjusted
C35_WitnessAdjusted ==
    /\ DepositSubmitted
    /\ last.ok
    /\ ~pool_is_empty(Before)
    /\ DepositSlippage = 100
    /\ DepositIncomingRatio # DepositPoolRatio

(***************************************************************************)
(* Groups of several pool operations, and the holdings of the pool escrow  *)
(***************************************************************************)
\* the asset a transaction transfers to the pool escrow; 0 when it
\* transfers none
PoolTransferAsset(t) ==
    IF t.type = "pay" /\ t.receiver = "pool" THEN ALGO_ASSET_ID
    ELSE IF t.type = "axfer" /\ t.asset_receiver = "pool" THEN t.xfer_asset
    ELSE 0

\* the call Gtxn[i] takes the transfer Gtxn[idx] as its input
TakesAsInput(g, i, idx) ==
    /\ Gtxn(g, i).type = "appl"
    /\ Gtxn(g, i).application_id = "pool"
    /\ \/ Gtxn(g, i).arg0 = "pool" /\ idx \in {i - 2, i - 1}
       \/ Gtxn(g, i).arg0 \in {"swap_exact_for", "swap_for_exact"}
          /\ idx = i - 1
       \/ Gtxn(g, i).arg0 = "burn_asset1_out" /\ idx = i - 1
       \/ Gtxn(g, i).arg0 = "burn_asset2_out" /\ idx = i - 2
       \/ Gtxn(g, i).arg0 = "flash_loan" /\ idx = FLASH_LOAN_REPAY_IDX(g)

\* the operation a call belongs to: the two burn calls are one operation
OperationOf(g, i) ==
    IF Gtxn(g, i).arg0 = "burn_asset2_out" THEN i - 1 ELSE i

\* the operations of the group that credit the transfer Gtxn[idx]
CreditingOperations(g, idx) ==
    {OperationOf(g, i) : i \in {j \in 0..(Len(g) - 1) :
                                    TakesAsInput(g, j, idx)}}

\* the amount of asset that Gtxn[k], Gtxn[k + 1], ... transfer to the
\* escrow; with validated, only the transfers that an operation credits
RECURSIVE Inbound(_, _, _, _)
Inbound(g, asset, validated, k) ==
    IF k >= Len(g) THEN 0
    ELSE (IF /\ PoolTransferAsset(Gtxn(g, k)) = asset
             /\ validated => CreditingOperations(g, k) # {}
          THEN swap_input_amount(Gtxn(g, k)) ELSE 0)
         + Inbound(g, asset, validated, k + 1)

\* what the calls k, k + 1, ... sent of asset1 (is_asset1) or asset2
RECURSIVE Outbound(_, _, _)
Outbound(calls, is_asset1, k) ==
    IF k > Len(calls) THEN 0
    ELSE (IF is_asset1 THEN calls[k].o.sent1 ELSE calls[k].o.sent2)
         + Outbound(calls, is_asset1, k + 1)

\* a group is submitted; the escrow receives every transfer of an accepted
\* group and pays what the pool calls send
LedgerSubmit(g) ==
    /\ nops < MaxRoundOps
    /\ Submit(g)
    /\ nops' = nops + 1
    /\ calc' = IF last'.ok
               THEN [escrow1 |-> calc.escrow1
                                 + Inbound(g, pool.asset1_id, FALSE, 0)
                                 - Outbound(last'.calls, TRUE, 1),
                     escrow2 |-> calc.escrow2
                                 + Inbound(g, pool.asset2_id, FALSE, 0)
                                 - Outbound(last'.calls, FALSE, 1)]
               ELSE calc
    /\ UNCHANGED <<manager, now, sched, nadm, nmgr>>

LedgerFlashLoan(st) == Call("user", "flash_loan", st.asset1_id, 1000)

LedgerRepay(st) == AssetIn(st, TRUE, FlashLoanRepayment(1000, 1))

\* one operation per group
LedgerSingle ==
    \/ LedgerSubmit(DepositGroup(pool, 1000000, 1000000, 10000))
    \/ LedgerSubmit(DepositGroup(pool, 2000, 3000, 1000000))
    \/ LedgerSubmit(BurnGroup(pool, pool.lp_circulation \div 2))
    \/ LedgerSubmit(SwapExactForGroup(pool, TRUE, 50000, 0))
    \/ LedgerSubmit(SwapForExactGroup(pool, FALSE, 1003, 500))
    \/ LedgerSubmit(<<LedgerFlashLoan(pool), LedgerRepay(pool)>>)
    \/ LedgerSubmit(<<Call("admin", "remove_reserves", 0, 0)>>)

\* several operations per group, and a transfer that no operation credits
LedgerSeveral ==
    \/ LedgerSubmit(<<LedgerFlashLoan(pool)>>
                    \o SwapExactForGroup(pool, TRUE, 1003, 0)
                    \o <<LedgerRepay(pool)>>)
    \/ LedgerSubmit(<<LedgerFlashLoan(pool)>>
                    \o DepositGroup(pool, 2000, 3000, 1000000)
                    \o BurnGroup(pool, 1000)
                    \o <<LedgerRepay(pool)>>)
    \/ LedgerSubmit(SwapExactForGroup(pool, TRUE, 1003, 0)
                    \o SwapForExactGroup(pool, FALSE, 1003, 500))
    \/ LedgerSubmit(<<AssetIn(pool, FALSE, 777)>>
                    \o SwapExactForGroup(pool, FALSE, 50000, 0))

\* groups in which two operations would take the same transfer
LedgerShared ==
    \/ LedgerSubmit(<<LedgerFlashLoan(pool), LedgerRepay(pool),
                      Call("user", "swap_exact_for", 0, 0)>>)
    \/ LedgerSubmit(<<AssetIn(pool, TRUE, 1003),
                      Call("user", "swap_exact_for", 0, 0),
                      Call("user", "swap_exact_for", 0, 0)>>)
    \/ LedgerSubmit(<<AssetIn(pool, TRUE, 2000),
                      Call("user", "swap_exact_for", 0, 0),
                      Call("user", "pool", 1000000, 0), RedeemAsset1,
                      RedeemAsset2>>)
    \/ LedgerSubmit(<<AssetTransfer("user", pool.lp_id, "pool", 1000),
                      Call("user", "burn_asset1_out", 0, 0),
                      Call("user", "burn_asset1_out", 0, 0),
                      Call("user", "burn_asset2_out", 0, 0)>>)

LedgerInit ==
    /\ \E a1 \in Asset1Ids : pool = CreatedPool(a1)
    /\ manager = [exists |-> TRUE,
                  reserve_factor |-> DEFAULT_RESERVE_FACTOR,
                  flash_loan_fee |-> INIT_FLASH_LOAN_FEE,
                  max_flash_loan_ratio |-> INIT_MAX_FLASH_LOAN_RATIO]
    /\ now = 1
    /\ last = NoGroup
    /\ sched = [time |-> 0, delay |-> 0, fee |-> 0]
    /\ nops = 0
    /\ nadm = 0
    /\ nmgr = 0
    /\ calc = [escrow1 |-> 0, escrow2 |-> 0]

LedgerNext ==
    \/ InitializePool
    \/ LedgerSingle
    \/ LedgerSeveral
    \/ LedgerShared

LedgerSpec == LedgerInit /\ [][LedgerNext]_vars

(***************************************************************************)
(* C36: for each asset k, in every committed group the change of           *)
(* balance_k + assetk_reserve is the amount of asset k that the group's    *)
(* validated input transfers bring into the escrow minus the amount the    *)
(* pool sends out in the group; so balance_k + assetk_reserve never        *)
(* exceeds the escrow's holdings of asset k.                               *)
(***************************************************************************)
\* a group with a pool call was accepted
Committed == last.ok /\ last.calls # <<>>

Accounted1(st) == st.balance_1 + st.asset1_reserve
Accounted2(st) == st.balance_2 + st.asset2_reserve

C36_Conservation ==
    /\ Accounted1(pool) =< calc.escrow1
    /\ Accounted2(pool) =< calc.escrow2
    /\ Committed =>
           /\ Accounted1(pool) - Accounted1(Before)
                  = Inbound(last.group, pool.asset1_id, TRUE, 0)
                    - Outbound(last.calls, TRUE, 1)
           /\ Accounted2(pool) - Accounted2(Before)
                  = Inbound(last.group, pool.asset2_id, TRUE, 0)
                    - Outbound(last.calls, FALSE, 1)

\* a flash loan, a deposit with a residual and a burn in one group: inputs
\* and payouts of both assets
C36_Witness ==
    /\ Committed
    /\ Len(last.group) = 10
    /\ Outbound(last.calls, TRUE, 1) > 1000
    /\ Outbound(last.calls, FALSE, 1) > 0
    /\ Inbound(last.group, pool.asset1_id, TRUE, 0) > 1000
    /\ Accounted1(pool) # Accounted1(Before)

\* a transfer that no operation credits: the escrow holds more than the
\* pool accounts for
C36_WitnessDonation ==
    /\ Committed
    /\ Inbound(last.group, pool.asset2_id, FALSE, 0)
           > Inbound(last.group, pool.asset2_id, TRUE, 0)
    /\ Accounted2(pool) < calc.escrow2

\* the reserves are withdrawn
C36_WitnessReserves ==
    /\ Accepted("remove_reserves", 0)
    /\ Outbound(last.calls, TRUE, 1) > 0
    /\ Accounted1(pool) = pool.balance_1

(***************************************************************************)
(* C37: in an accepted group every transfer to the pool escrow is credited *)
(* by at most one pool operation: no transfer is the input of two of       *)
(* deposit, swap, burn pair and flash-loan repayment.                      *)
(***************************************************************************)
C37_CreditedOnce ==
    last.ok =>
        \A idx \in 0..(Len(last.group) - 1) :
            PoolTransferAsset(Gtxn(last.group, idx)) # 0
            => Cardinality(CreditingOperations(last.group, idx)) =< 1

\* an accepted group of two operations, each with its own transfer
C37_Witness ==
    /\ last.ok
    /\ Len(last.group) = 4
    /\ Gtxn(last.group, 0).arg0 = "flash_loan"
    /\ Cardinality(CreditingOperations(last.group, 1)) = 1
    /\ Cardinality(CreditingOperations(last.group, 3)) = 1
    /\ CreditingOperations(last.group, 1)
           # CreditingOperations(last.group, 3)

\* a rejected group in which the flash loan and a swap would take the same
\* transfer
C37_WitnessRejected ==
    /\ ~last.ok
    /\ Len(last.group) = 3
    /\ Gtxn(last.group, 0).arg0 = "flash_loan"
    /\ TakesAsInput(last.group, 2, 1)
    /\ PoolTransferAsset(Gtxn(last.group, 1)) # 0

(***************************************************************************)
(* the balances against the LP tokens in circulation                      *)
(***************************************************************************)
\* lp_circulation * lp_circulation, as the pair <<high part, low part>>
CirculationSquared(st) == WideMul(st.lp_circulation, st.lp_circulation)

\* C38: for the constant-product pool, balance_1 * balance_2 >=
\* lp_circulation^2 after every committed group, whatever deposits, burns,
\* swaps, flash loans and reserve withdrawals came before
C38_ProductBacksCirculation ==
    (last.ok /\ ~pool.stable) =>
        WideLeq(CirculationSquared(pool), Product(pool))

\* a burn of part of the LP tokens was committed in a pool whose product a
\* swap or a flash loan had raised above the square of the circulation
C38_Witness ==
    /\ AcceptedBurn
    /\ ~pool.stable
    /\ pool.lp_circulation > 0
    /\ WideLess(CirculationSquared(Before), Product(Before))
    /\ WideLess(CirculationSquared(pool), Product(pool))

\* a first deposit was committed and left the product at the square exactly
C38_WitnessEqual ==
    /\ AcceptedDeposit
    /\ Before.lp_circulation = 0
    /\ pool.lp_circulation > 0
    /\ CirculationSquared(pool) = Product(pool)

\* a reserve withdrawal was committed in a pool with LP tokens in circulation
C38_WitnessReserves ==
    /\ Accepted("remove_reserves", 0)
    /\ pool.lp_circulation > 0
    /\ Before.asset1_reserve + Before.asset2_reserve > 0

(***************************************************************************)
(* A stable pool under swaps at a fixed amplification factor               *)
(***************************************************************************)
\* amplification factors the pool is created with, as A * 10^6
TradeFactors == {300000, 1000000, 100000000}

\* reserve factors the manager holds: the default, and the whole fee
TradeReserveFactors == {DEFAULT_RESERVE_FACTOR, FIXED_6_SCALE_FACTOR}

\* <<asset1 amount, asset2 amount>> of the first deposit
TradeDeposits == {<<46319, 88135>>, <<124364, 156100>>, <<1000000, 1000000>>}

\* <<swap_for_exact, input is asset1, input amount, minimum or exact output>>
TradeSwaps ==
    {<<TRUE, FALSE, 1000, 10>>, <<TRUE, TRUE, 1000, 100>>,
     <<FALSE, FALSE, 5, 0>>, <<FALSE, TRUE, 1003, 0>>}

NoTrade == [D_before |-> <<>>, D_after |-> <<>>, done |-> FALSE]

TradeInit ==
    /\ \E A \in TradeFactors : pool = CreatedStablePool(ALGO_ASSET_ID, A)
    /\ \E f \in TradeReserveFactors :
           manager = [exists |-> TRUE,
                      reserve_factor |-> f,
                      flash_loan_fee |-> INIT_FLASH_LOAN_FEE,
                      max_flash_loan_ratio |-> INIT_MAX_FLASH_LOAN_RATIO]
    /\ now = 1
    /\ last = NoGroup
    /\ sched = [time |-> 0, delay |-> 0, fee |-> 0]
    /\ nops = 0
    /\ nadm = 0
    /\ nmgr = 0
    /\ calc = NoTrade

TradeDeposit ==
    \E a \in TradeDeposits :
        /\ pool_is_empty(pool)
        /\ SubmitStep(DepositGroup(pool, a[1], a[2], 10000))

\* the swap group g run on the stable pool: the transfer, the swap call
\* and, after swap_for_exact, redeem_swap_residual
RunStableSwap(st, g, mgr, time) ==
    CHOOSE res \in
        {IF ~r.ok
         THEN [ok |-> FALSE, st |-> st,
               calls |-> <<Step(st, Approve(st, NoOut)), Step(st, r)>>]
         ELSE IF Len(g) = 2
         THEN [ok |-> TRUE, st |-> r.st,
               calls |-> <<Step(st, Approve(st, NoOut)), Step(st, r)>>]
         ELSE [ok |-> on_redeem_swap_residual(
                          r.st, g, 2, <<NoOut, r.o>>).ok,
               st |-> r.st,
               calls |-> <<Step(st, Approve(st, NoOut)), Step(st, r),
                           Step(r.st,
                                on_redeem_swap_residual(
                                    r.st, g, 2, <<NoOut, r.o>>))>>] :
             r \in {stable_on_swap(st, g, 1, mgr, time)}} :
        TRUE

\* compute_D of the balances of st at the amplification factor of the time
InvariantOf(st, time) ==
    compute_D(BigOf(st.balance_1), BigOf(st.balance_2),
              get_amplification_factor(st, time))

\* a swap group; D_before and D_after are compute_D of the balances before
\* and after an accepted one
TradeSwap ==
    \E a \in TradeSwaps :
        \E g \in {IF a[1] THEN SwapForExactGroup(pool, a[2], a[3], a[4])
                  ELSE SwapExactForGroup(pool, a[2], a[3], a[4])} :
            /\ last.ok
            /\ pool.initialized
            /\ nops < MaxRoundOps
            /\ \E r \in {RunStableSwap(pool, g, manager, now)} :
                /\ pool' = IF r.ok THEN r.st ELSE pool
                /\ last' = [group |-> g, ok |-> r.ok, calls |-> r.calls,
                            time |-> now]
                /\ calc' = IF r.ok
                           THEN [D_before |-> InvariantOf(pool, now).D_estimate,
                                 D_after |-> InvariantOf(r.st, now).D_estimate,
                                 done |-> InvariantOf(r.st, now).status
                                              = "returned"]
                           ELSE NoTrade
            /\ nops' = nops + 1
            /\ UNCHANGED <<manager, now, sched, nadm, nmgr>>

TradeNext ==
    \/ InitializePool
    \/ TradeDeposit
    \/ TradeSwap

TradeSpec == TradeInit /\ [][TradeNext]_vars

\* the last group was an accepted swap of the stable pool
StableSwapAccepted ==
    /\ pool.stable
    /\ last.ok
    /\ Len(last.group) >= 2
    /\ Gtxn(last.group, 1).type = "appl"
    /\ Gtxn(last.group, 1).arg0 \in {"swap_exact_for", "swap_for_exact"}

\* C33: for every accepted swap of the stable pool, compute_D of the
\* balances after the swap is not below compute_D of the balances before
\* it, at the same amplification factor
C33_InvariantNotLowered ==
    StableSwapAccepted => (calc.done /\ BigLeq(calc.D_before, calc.D_after))

\* an accepted swap_for_exact of the stable pool after which compute_D came
\* to the value before the swap or more
C33_Witness ==
    /\ StableSwapAccepted
    /\ Gtxn(last.group, 1).arg0 = "swap_for_exact"
    /\ calc.done
    /\ BigLess(calc.D_before, calc.D_after)

\* the same for swap_exact_for
C33_WitnessExactFor ==
    /\ StableSwapAccepted
    /\ Gtxn(last.group, 1).arg0 = "swap_exact_for"
    /\ calc.done
    /\ BigLess(calc.D_before, calc.D_after)

\* an accepted swap after which compute_D is one less than before it
C33_WitnessLowered ==
    /\ StableSwapAccepted
    /\ calc.done
    /\ BigAdd(calc.D_after, <<1>>) = calc.D_before

=============================================================================
